---------------------------- MODULE Spec2Model ----------------------------
(***************************************************************************)
(* The story state machine and media-budgeting orchestrator of             *)
(* DreamDirector: src/agents/agent.py (the global game_state and the       *)
(* functions that mutate it) and src/backend/app.py (the HTTP handlers     *)
(* that sequence those functions).                                         *)
(*                                                                         *)
(* Text is modelled as a sequence of the blank-separated words of the      *)
(* Python string.  The text collaborator, the image/video/music providers  *)
(* and the wall clock are inputs drawn with \E.                            *)
(***************************************************************************)
EXTENDS Integers, Sequences, FiniteSets, TLC

VARIABLES
    game_state,     \* agent.py: the process-wide GameState instance
    MEDIA_GENERATION_AVAILABLE,   \* agent.py: whether the GenAI SDK imported
    threads,        \* the daemon music threads started by handlers
    response,       \* what the last completed entry point returned
    audit,          \* observer: provider calls and completed operations
    clock,          \* the second shown by datetime.now() at the last read
    operation       \* the video operation a handler is polling, if any

vars == <<game_state, MEDIA_GENERATION_AVAILABLE, threads, response, audit, clock,
          operation>>

-----------------------------------------------------------------------------
(* Bounds of the model                                                     *)

MaxHistory == 19        \* story_history events an entry point may reach
MaxToolHistory == 2     \* story_history length up to which the agent calls tools directly
MaxChoicesMade == 6     \* resolve_user_choice is not taken beyond this count
MaxDanger == 12         \* resolve_user_choice is not taken beyond this level
MaxImages == 2          \* image provider stops succeeding at this many entries
MaxVideos == 1          \* video provider stops succeeding at this many entries
MaxMusic == 1           \* final tracks kept in generated_music
MaxThreads == 1         \* music threads alive at once
MaxChunks == 1          \* audio chunks one session receives, and chunks buffered at once
MaxClock == 1           \* seconds the wall clock advances
MaxAdventures == 1      \* start_new_adventure calls in one run of the process
MaxPolls == 2           \* polls of a video operation the model counts
MaxMusicThreads == 2    \* music threads alive at once where their interleaving is studied
MaxStoryHistory == 5    \* story_history length up to which the story tools are followed
MaxStoryAdventures == 2 \* start_new_adventure calls where adventures follow one another
MaxRequestWords == 3    \* words of a request where the classification is studied
MaxAnswerLines == 3     \* lines of a collaborator answer where the parsing is studied

-----------------------------------------------------------------------------
(* Text: Python str as a sequence of words                                 *)

\* str.lower() on the words that carry upper-case letters
LowerTable ==
    ("A" :> "a") @@ ("AI" :> "ai") @@ ("An" :> "an") @@
    ("Atlantean" :> "atlantean") @@ ("Atlantis" :> "atlantis") @@
    ("Atlantis's" :> "atlantis's") @@ ("Dragon" :> "dragon") @@
    ("Eye" :> "eye") @@ ("Neo-Tokyo" :> "neo-tokyo") @@
    ("Serpent's" :> "serpent's") @@ ("Shadowrealm" :> "shadowrealm") @@
    ("The" :> "the") @@ ("Tree's" :> "tree's") @@ ("World" :> "world")

LowerWord(w) == IF w \in DOMAIN LowerTable THEN LowerTable[w] ELSE w

Lower(s) == [i \in 1..Len(s) |-> LowerWord(s[i])]

\* the lower-case words of the model's vocabulary that hold a keyword as a
\* proper substring
EmbeddedKeywords ==
    {<<"atlantis", "atlantis's">>, <<"forest", "mysterious_forest">>}

\* Python `kw in s` for a keyword without blanks: it lies inside one word
Contains(s, kw) ==
    \E i \in 1..Len(s) : s[i] = kw \/ <<kw, s[i]>> \in EmbeddedKeywords

\* Python `kw in s.lower()`
ContainsLower(s, kw) == Contains(Lower(s), kw)

-----------------------------------------------------------------------------
(* demo_scenarios and the texts of continue_narrative                      *)

CyberpunkSetting ==
    <<"Neo-Tokyo", "2087:", "A", "rain-soaked", "metropolis", "where",
      "corporate", "zaibatsus", "control", "reality", "through", "neural",
      "implants">>

ForestSetting ==
    <<"An", "ancient", "forest", "where", "magic", "flows", "through",
      "twisted", "trees", "and", "glowing", "flowers">>

DragonSetting ==
    <<"The", "volcanic", "lair", "of", "an", "ancient", "dragon", "filled",
      "with", "treasures", "and", "dangerous", "magic">>

CustomSettingPrefix == <<"An", "immersive", "world", "based", "on:">>

\* demo_scenarios: the setting and visual_style of each template
demo_scenarios ==
    [cyberpunk |-> [setting |-> CyberpunkSetting,
                    visual_style |-> "cyberpunk noir with neon highlights and atmospheric rain"],
     mystical  |-> [setting |-> ForestSetting,
                    visual_style |-> "mystical fantasy with ethereal lighting and magical particles"],
     fantasy   |-> [setting |-> DragonSetting,
                    visual_style |-> "epic fantasy with dramatic fire lighting and volcanic atmosphere"]]

CyberpunkScene1 ==
    <<"A", "hidden", "underground", "resistance", "hideout", "beneath", "Neo-Tokyo">>
AtlantisScene1 ==
    <<"The", "ancient", "Atlantean", "throne", "room", "with", "mystical", "technology">>
ForestScene1 ==
    <<"A", "mystical", "clearing", "where", "reality", "bends", "and", "magic",
      "flows", "freely">>
GenericPrefix1 == <<"A", "deeper,", "more", "dangerous", "part", "of">>

CyberpunkScene2 ==
    <<"The", "corporate", "zaibatsu", "tower's", "executive", "floors">>
AtlantisScene2 ==
    <<"The", "abyssal", "depths", "where", "ancient", "leviathans", "guard",
      "Atlantean", "secrets">>
ForestScene2 ==
    <<"The", "Shadowrealm", "where", "dark", "magic", "and", "light", "magic",
      "clash", "eternally">>
GenericPrefix2 == <<"A", "completely", "new", "location", "connected", "to">>

CyberpunkScene3 ==
    <<"The", "digital", "realm", "inside", "the", "neural", "network", "itself">>
AtlantisScene3 ==
    <<"The", "timestream", "portal", "chamber", "where", "past", "and", "future",
      "Atlantis", "collide">>
ForestScene3 ==
    <<"The", "World", "Tree's", "crown", "where", "cosmic", "forces", "converge">>
GenericPrefix3 == <<"The", "climactic", "confrontation", "arising", "from">>

CyberpunkScene4 ==
    <<"The", "core", "of", "the", "Serpent's", "Eye", "AI", "system", "-",
      "reality's", "command", "center">>
AtlantisScene4 ==
    <<"The", "moment", "of", "Atlantis's", "original", "fall", "-", "you", "can",
      "change", "everything">>
ForestScene4 ==
    <<"The", "cosmic", "loom", "where", "reality's", "threads", "can", "be",
      "rewoven">>
GenericPrefix4 == <<"The", "ultimate", "threshold", "of">>

\* the characters continue_narrative adds after the second choice
DirectorSato == "Director Sato - Corporate AI Overlord"
TidalGuardian == "Tidal Guardian - Ancient Atlantean Protector"
ShadowWeaver == "Shadow Weaver - Keeper of Dark Mysteries"

-----------------------------------------------------------------------------
(* Inputs                                                                  *)

\* story_request texts sent to /start-story or start_new_adventure
CyberpunkDetectiveRequest == <<"a", "cyberpunk", "detective", "story">>
StoryRequests ==
    {CyberpunkDetectiveRequest,
     <<"explore", "Atlantis">>}

\* the choice text of /make-choice and resolve_user_choice
ChoiceTexts == {"A"}

\* no asset: Python None
None == [kind |-> "None", ts |-> 0]

\* the empty string where a file name is expected
EmptyName == [kind |-> "", ts |-> 0]

\* a generated file: its name is its kind and the second it was written
File(kind, ts) == [kind |-> kind, ts |-> ts]

\* the seconds datetime.now() can show at a read that follows clock c
Seconds(c) == {t \in {c, c + 1} : t <= MaxClock}

-----------------------------------------------------------------------------
(* GameState                                                               *)

\* GameState(): the field defaults of the dataclasses
GameState ==
    [current_scene |-> <<"mysterious_forest">>,
     current_mood |-> "mysterious",
     characters_present |-> <<>>,
     story_history |-> <<>>,
     current_danger_level |-> 1,
     user_choices_made |-> 0,
     generated_images |-> <<>>,
     generated_videos |-> <<>>,
     generated_music |-> <<>>,
     visual_style |-> [art_style |-> "cinematic fantasy realism",
                       character_references |-> <<>>,
                       location_references |-> <<>>],
     audio_state |-> [current_session_chunks |-> <<>>],
     world_knowledge |-> {},
     scene_media_count |-> [images |-> 0, videos |-> 0, music |-> 0]]

\* dict[key] = value
DictPut(d, key, value) == (key :> value) @@ d

\* the observer's record of a call: its name and the counters it left
Call(name, g) ==
    [call |-> name,
     danger_level |-> g.current_danger_level,
     user_choices_made |-> g.user_choices_made]

\* what a function hands back: the state it leaves, its return value, the
\* calls it completed (for the observer) and the music threads it started
Result(g, ret, log, spawn) == [g |-> g, ret |-> ret, log |-> log, spawn |-> spawn]

-----------------------------------------------------------------------------
(* Media gateway                                                           *)

\* a generate_consistent_image whose provider error escapes: the caller gets
\* the exception where it expects a file name or None (a variant the
\* failure-containment property must tell apart from the code)
generate_consistent_image_raising(g, img) ==
    IF img = None
    THEN Result(g, [kind |-> "Exception", ts |-> 0], <<Call("image_failed", g)>>, <<>>)
    ELSE Result([g EXCEPT !.generated_images = Append(@, img),
                          !.scene_media_count.images = @ + 1],
                img, <<Call("image_generated", g)>>, <<>>)

\* generate_consistent_image: img is the file the provider call produced, or
\* None when the client is missing, the call raised or returned no image
generate_consistent_image(g, img) ==
    IF img = None
    THEN Result(g, None, <<Call("image_failed", g)>>, <<>>)
    ELSE Result([g EXCEPT !.generated_images = Append(@, img),
                          !.scene_media_count.images = @ + 1],
                img, <<Call("image_generated", g)>>, <<>>)

\* generate_video_from_image_seed: vid is the file the finished provider
\* operation produced, or None
generate_video_from_image_seed(g, seed_image_path, vid) ==
    IF seed_image_path = None \/ vid = None
    THEN Result(g, None, <<Call("video_failed", g)>>, <<>>)
    ELSE Result([g EXCEPT !.generated_videos = Append(@, vid),
                          !.scene_media_count.videos = @ + 1],
                vid, <<Call("video_generated", g)>>, <<>>)

\* trigger_scene_music: logs the cue and returns; no generation is started
trigger_scene_music == [music_status |-> "music_cued"]

\* a generate_establishing_scene that does not consult the image count (a
\* variant the cap property must tell apart from the code)
generate_establishing_scene_uncapped(g, media, location, img) ==
    LET gen == IF media
               THEN generate_consistent_image(g, img)
               ELSE Result(g, None, <<>>, <<>>)
        g2 == IF gen.ret # None
              THEN [gen.g EXCEPT !.visual_style.location_references =
                                     DictPut(@, location, gen.ret)]
              ELSE gen.g
    IN  Result(g2,
               [location |-> location,
                generated_file |-> gen.ret,
                status |-> IF gen.ret # None THEN "generated" ELSE "prompt_only",
                adaptive_music |-> trigger_scene_music],
               gen.log, <<>>)

\* generate_establishing_scene
\* generate_establishing_scene
generate_establishing_scene(g, media, location, img) ==
    LET should_generate_image == g.scene_media_count.images < 1
        gen == IF should_generate_image /\ media
               THEN generate_consistent_image(g, img)
               ELSE Result(g, None, <<>>, <<>>)
        g2 == IF gen.ret # None
              THEN [gen.g EXCEPT !.visual_style.location_references =
                                     DictPut(@, location, gen.ret)]
              ELSE gen.g
    IN  Result(g2,
               [location |-> location,
                generated_file |-> gen.ret,
                status |-> IF gen.ret # None THEN "generated" ELSE "prompt_only",
                adaptive_music |-> trigger_scene_music],
               gen.log, <<>>)

\* create_single_choice_image
create_single_choice_image(g, media, img) ==
    IF ~media
    THEN Result(g, [generated_image |-> None], <<>>, <<>>)
    ELSE LET gen == generate_consistent_image(g, img)
             g2 == IF gen.ret # None
                   THEN [gen.g EXCEPT !.generated_images = Append(@, gen.ret),
                                      !.scene_media_count.images = @ + 1]
                   ELSE gen.g
         IN  Result(g2, [generated_image |-> gen.ret], gen.log, <<>>)

\* a create_dramatic_outcome that animates its image into a video (a variant
\* the video property must tell apart from the code)
create_dramatic_outcome_with_video(g, media, img) ==
    LET image_result == create_single_choice_image(g, media, img)
        video == generate_video_from_image_seed(image_result.g,
                                                image_result.ret.generated_image,
                                                File("generated_video", 0))
    IN  Result(video.g, image_result.ret, image_result.log \o video.log, <<>>)

\* create_dramatic_outcome
create_dramatic_outcome(g, media, img) == create_single_choice_image(g, media, img)

-----------------------------------------------------------------------------
(* Story orchestration                                                     *)

\* one story_history entry: its 'type' and the fields later code can tell
\* apart ('chosen_option' / 'final_choice', 'choices_made')
Event(type, option, n) == [type |-> type, option |-> option, choices_made |-> n]

Min(a, b) == IF a < b THEN a ELSE b

\* a selection that tries the forest keywords before the dragon keywords (a
\* variant the classification property must tell apart from the code)
SelectScenarioForestFirst(user_story_request) ==
    IF ContainsLower(user_story_request, "cyberpunk")
       \/ ContainsLower(user_story_request, "detective")
    THEN [story_type |-> "cyberpunk",
          setting |-> demo_scenarios.cyberpunk.setting,
          visual_style |-> demo_scenarios.cyberpunk.visual_style]
    ELSE IF ContainsLower(user_story_request, "forest")
            \/ ContainsLower(user_story_request, "magic")
    THEN [story_type |-> "mystical",
          setting |-> demo_scenarios.mystical.setting,
          visual_style |-> demo_scenarios.mystical.visual_style]
    ELSE IF ContainsLower(user_story_request, "fantasy")
            \/ ContainsLower(user_story_request, "knight")
            \/ ContainsLower(user_story_request, "dragon")
    THEN [story_type |-> "fantasy",
          setting |-> demo_scenarios.fantasy.setting,
          visual_style |-> demo_scenarios.fantasy.visual_style]
    ELSE [story_type |-> "adventure",
          setting |-> CustomSettingPrefix \o user_story_request,
          visual_style |-> "cinematic realism with atmospheric lighting"]

\* the scenario start_new_adventure selects for a request
SelectScenario(user_story_request) ==
    IF ContainsLower(user_story_request, "cyberpunk")
       \/ ContainsLower(user_story_request, "detective")
    THEN [story_type |-> "cyberpunk",
          setting |-> demo_scenarios.cyberpunk.setting,
          visual_style |-> demo_scenarios.cyberpunk.visual_style]
    ELSE IF ContainsLower(user_story_request, "fantasy")
            \/ ContainsLower(user_story_request, "knight")
            \/ ContainsLower(user_story_request, "dragon")
    THEN [story_type |-> "fantasy",
          setting |-> demo_scenarios.fantasy.setting,
          visual_style |-> demo_scenarios.fantasy.visual_style]
    ELSE IF ContainsLower(user_story_request, "forest")
            \/ ContainsLower(user_story_request, "magic")
    THEN [story_type |-> "mystical",
          setting |-> demo_scenarios.mystical.setting,
          visual_style |-> demo_scenarios.mystical.visual_style]
    ELSE [story_type |-> "adventure",
          setting |-> CustomSettingPrefix \o user_story_request,
          visual_style |-> "cinematic realism with atmospheric lighting"]

\* a start_new_adventure that keeps the progress of the previous adventure
\* (a variant the reset properties must tell apart from the code)
start_new_adventure_keeping_progress(g, user_story_request) ==
    LET scenario == SelectScenario(user_story_request)
        g2 == [g EXCEPT !.current_scene = scenario.setting,
                        !.current_mood = "mysterious",
                        !.visual_style.art_style = scenario.visual_style]
    IN  Result(g2,
               [user_request |-> user_story_request,
                story_type |-> scenario.story_type,
                setting |-> scenario.setting,
                visual_style |-> scenario.visual_style,
                status |-> "adventure_initialized"],
               <<Call("start_new_adventure", g2)>>, <<>>)

\* a start_new_adventure that keeps the art style an earlier adventure chose
\* (a variant the determinism property must tell apart from the code)
start_new_adventure_in_earlier_style(g, user_story_request) ==
    LET scenario == SelectScenario(user_story_request)
        style == IF g.visual_style.art_style = GameState.visual_style.art_style
                 THEN scenario.visual_style
                 ELSE g.visual_style.art_style
        g2 == [g EXCEPT !.current_scene = scenario.setting,
                        !.current_mood = "mysterious",
                        !.visual_style.art_style = style,
                        !.story_history = <<>>,
                        !.scene_media_count = [images |-> 0, videos |-> 0, music |-> 0],
                        !.user_choices_made = 0]
    IN  Result(g2,
               [user_request |-> user_story_request,
                story_type |-> scenario.story_type,
                setting |-> scenario.setting,
                visual_style |-> style,
                status |-> "adventure_initialized"],
               <<Call("start_new_adventure", g2)>>, <<>>)

\* start_new_adventure
start_new_adventure(g, user_story_request) ==
    LET scenario == SelectScenario(user_story_request)
        g2 == [g EXCEPT !.current_scene = scenario.setting,
                        !.current_mood = "mysterious",
                        !.visual_style.art_style = scenario.visual_style,
                        !.story_history = <<>>,
                        !.scene_media_count = [images |-> 0, videos |-> 0, music |-> 0],
                        !.user_choices_made = 0]
    IN  Result(g2,
               [user_request |-> user_story_request,
                story_type |-> scenario.story_type,
                setting |-> scenario.setting,
                visual_style |-> scenario.visual_style,
                status |-> "adventure_initialized"],
               <<Call("start_new_adventure", g2)>>, <<>>)

\* a begin_opening_scene that leaves no event in the history (a variant the
\* opening-scene property must tell apart from the code)
begin_opening_scene_unrecorded(g, media, img) ==
    LET opening_result == generate_establishing_scene(g, media, g.current_scene, img)
    IN  Result(opening_result.g,
               [opening_scene |-> opening_result.ret,
                status |-> "opening_scene_complete"],
               opening_result.log \o <<Call("begin_opening_scene", opening_result.g)>>,
               <<>>)

\* begin_opening_scene
begin_opening_scene(g, media, img) ==
    LET opening_result == generate_establishing_scene(g, media, g.current_scene, img)
        g2 == [opening_result.g EXCEPT
                  !.story_history = Append(@, Event("opening_scene", "", 0))]
    IN  Result(g2,
               [opening_scene |-> opening_result.ret,
                status |-> "opening_scene_complete"],
               opening_result.log \o <<Call("begin_opening_scene", g2)>>, <<>>)

\* a parse that keeps the label in front of the text (a variant the parsing
\* property must tell apart from the code)
ParseChoiceKeepingLabel(lines, label) ==
    LET hits == {i \in 1..Len(lines) : Len(lines[i]) > 0 /\ lines[i][1] = label}
    IN  IF hits = {} THEN <<>>
        ELSE lines[CHOOSE i \in hits : \A j \in hits : j <= i]

\* the text after the last line of ai_response that starts with the label
ParseChoice(lines, label) ==
    LET hits == {i \in 1..Len(lines) : Len(lines[i]) > 0 /\ lines[i][1] = label}
    IN  IF hits = {} THEN <<>>
        ELSE Tail(lines[CHOOSE i \in hits : \A j \in hits : j <= i])

\* a present_story_choice that counts a choice (a variant the progression
\* property must tell apart from the code)
present_story_choice_advancing(g, situation, choice_a, choice_b, choice_c, txt) ==
    LET g2 == [g EXCEPT !.user_choices_made = @ + 1,
                        !.story_history = Append(@, Event("choice_moment", "", 0))]
    IN  Result(g2,
               [situation |-> situation, choice_a |-> choice_a, choice_b |-> choice_b,
                choice_c |-> choice_c, status |-> "choice_presented_with_clear_options"],
               <<Call("present_story_choice", g)>>, <<>>)

\* present_story_choice: txt holds the lines of the collaborator's answer, or
\* is None when the client is missing or the call raised
present_story_choice(g, situation, choice_a, choice_b, choice_c, txt) ==
    LET sit == IF situation = <<>>
               THEN <<"You", "find", "yourself", "in">> \o g.current_scene
                    \o <<"What", "is", "your", "next", "move?">>
               ELSE situation
        ask == choice_a = <<>> /\ choice_b = <<>> /\ choice_c = <<>>
        parsed == ask /\ txt # None
        a == IF parsed THEN ParseChoice(txt.lines, "A:") ELSE choice_a
        b == IF parsed THEN ParseChoice(txt.lines, "B:") ELSE choice_b
        c == IF parsed THEN ParseChoice(txt.lines, "C:") ELSE choice_c
    IN  Result([g EXCEPT !.story_history = Append(@, Event("choice_moment", "", 0))],
               [situation |-> sit, choice_a |-> a, choice_b |-> b, choice_c |-> c,
                status |-> "choice_presented_with_clear_options"],
               <<Call("present_story_choice", g)>>, <<>>)

\* a fallback narrative that leaves the scene out (a variant the fallback
\* property must tell apart from the code)
FallbackNarrativeWithoutScene(chosen_option, scene) ==
    <<"Your", "choice", "to", chosen_option, "has", "immediate", "consequences.">>

\* the fallback narrative of resolve_user_choice
FallbackNarrative(chosen_option, scene) ==
    <<"Your", "choice", "to", chosen_option, "has", "immediate", "consequences", "in">>
    \o scene
    \o <<".", "The", "situation", "evolves", "as", "you", "face", "the", "results",
         "of", "your", "decision.">>

\* resolve_user_choice: txt is the collaborator's narrative, or None when the
\* client is missing or the call raised
resolve_user_choice(g, media, chosen_option, txt, img) ==
    LET ai_narrative == IF txt # None THEN txt
                        ELSE FallbackNarrative(chosen_option, g.current_scene)
        outcome_result == create_dramatic_outcome(g, media, img)
        g2 == [outcome_result.g EXCEPT
                  !.story_history = Append(@, Event("choice_resolution", chosen_option, 0)),
                  !.current_danger_level = @ + 1,
                  !.user_choices_made = @ + 1]
    IN  Result(g2,
               [ai_narrative |-> ai_narrative,
                outcome |-> outcome_result.ret.generated_image,
                danger_level |-> g2.current_danger_level,
                user_choices_made |-> g2.user_choices_made,
                next_step |-> IF g2.user_choices_made < 5 THEN "continue_story"
                              ELSE "story_climax",
                status |-> "choice_resolved"],
               outcome_result.log \o <<Call("resolve_user_choice", g2)>>, <<>>)

\* the branch continue_narrative takes for a scene
ScenarioFamilyWithoutForest(scene) ==
    IF ContainsLower(scene, "cyberpunk") THEN "cyberpunk"
    ELSE IF ContainsLower(scene, "atlantis") THEN "atlantis"
    ELSE "generic"

ScenarioFamily(scene) ==
    IF ContainsLower(scene, "cyberpunk") THEN "cyberpunk"
    ELSE IF ContainsLower(scene, "atlantis") THEN "atlantis"
    ELSE IF ContainsLower(scene, "forest") THEN "forest"
    ELSE "generic"

\* the scene continue_narrative moves to (unchanged outside 1..4)
EvolvedScene(choices_made, scene) ==
    LET family == ScenarioFamily(scene)
    IN  CASE choices_made = 1 ->
               (CASE family = "cyberpunk" -> CyberpunkScene1
                  [] family = "atlantis" -> AtlantisScene1
                  [] family = "forest" -> ForestScene1
                  [] OTHER -> GenericPrefix1 \o scene)
          [] choices_made = 2 ->
               (CASE family = "cyberpunk" -> CyberpunkScene2
                  [] family = "atlantis" -> AtlantisScene2
                  [] family = "forest" -> ForestScene2
                  [] OTHER -> GenericPrefix2 \o scene)
          [] choices_made = 3 ->
               (CASE family = "cyberpunk" -> CyberpunkScene3
                  [] family = "atlantis" -> AtlantisScene3
                  [] family = "forest" -> ForestScene3
                  [] OTHER -> GenericPrefix3 \o scene)
          [] choices_made = 4 ->
               (CASE family = "cyberpunk" -> CyberpunkScene4
                  [] family = "atlantis" -> AtlantisScene4
                  [] family = "forest" -> ForestScene4
                  [] OTHER -> GenericPrefix4 \o scene)
          [] OTHER -> scene

\* the narrative_continuation passage, named by the branch that wrote it
NarrativeContinuation(choices_made, scene) ==
    [family |-> ScenarioFamily(scene), choices_made |-> choices_made]

\* the characters continue_narrative appends after the second choice
NewCharacters(choices_made, scene) ==
    LET family == ScenarioFamily(scene)
    IN  IF choices_made # 2 THEN <<>>
        ELSE CASE family = "cyberpunk" -> <<DirectorSato>>
               [] family = "atlantis" -> <<TidalGuardian>>
               [] family = "forest" -> <<ShadowWeaver>>
               [] OTHER -> <<>>

DangerAfterContinueUncapped(choices_made) == 3 + choices_made * 2

\* the danger level continue_narrative sets
DangerAfterContinue(choices_made) == Min(10, 3 + choices_made * 2)

\* a continue_narrative that keeps only the latest history entry beside its
\* own (a variant the append-only property must tell apart from the code)
continue_narrative_trimming(g) ==
    LET choices_made == g.user_choices_made
        kept == IF g.story_history = <<>> THEN <<>>
                ELSE <<g.story_history[Len(g.story_history)]>>
        g2 == [g EXCEPT
                  !.current_scene = EvolvedScene(choices_made, g.current_scene),
                  !.characters_present = @ \o NewCharacters(choices_made, g.current_scene),
                  !.current_danger_level = DangerAfterContinue(choices_made),
                  !.story_history =
                      Append(kept, Event("story_continuation", "", choices_made))]
    IN  Result(g2,
               [raised |-> FALSE,
                narrative |-> NarrativeContinuation(choices_made, g.current_scene),
                current_scene |-> g2.current_scene,
                user_choices_made |-> g2.user_choices_made,
                choices_remaining |-> 5 - g2.user_choices_made,
                danger_level |-> g2.current_danger_level,
                status |-> "story_continued"],
               <<Call("continue_narrative", g2)>>, <<"single_track">>)

\* a continue_narrative that starts no music thread (a variant the
\* fire-and-forget property must tell apart from the code)
continue_narrative_without_music(g) ==
    LET choices_made == g.user_choices_made
        g2 == [g EXCEPT
                  !.current_scene = EvolvedScene(choices_made, g.current_scene),
                  !.characters_present = @ \o NewCharacters(choices_made, g.current_scene),
                  !.current_danger_level = DangerAfterContinue(choices_made)]
    IN  IF choices_made \in 1..4
        THEN Result([g2 EXCEPT !.story_history =
                          Append(@, Event("story_continuation", "", choices_made))],
                    [raised |-> FALSE,
                     narrative |-> NarrativeContinuation(choices_made, g.current_scene),
                     current_scene |-> g2.current_scene,
                     user_choices_made |-> g2.user_choices_made,
                     choices_remaining |-> 5 - g2.user_choices_made,
                     danger_level |-> g2.current_danger_level,
                     status |-> "story_continued"],
                    <<Call("continue_narrative", g2)>>, <<>>)
        ELSE Result(g2, [raised |-> TRUE, status |-> "UnboundLocalError"],
                    <<Call("continue_narrative", g2)>>, <<>>)

\* continue_narrative: outside 1..4 no branch binds narrative_continuation and
\* building the history entry raises UnboundLocalError, after the music
\* thread was started and the danger level was set
continue_narrative(g) ==
    LET choices_made == g.user_choices_made
        g2 == [g EXCEPT
                  !.current_scene = EvolvedScene(choices_made, g.current_scene),
                  !.characters_present = @ \o NewCharacters(choices_made, g.current_scene),
                  !.current_danger_level = DangerAfterContinue(choices_made)]
    IN  IF choices_made \in 1..4
        THEN Result([g2 EXCEPT !.story_history =
                          Append(@, Event("story_continuation", "", choices_made))],
                    [raised |-> FALSE,
                     narrative |-> NarrativeContinuation(choices_made, g.current_scene),
                     current_scene |-> g2.current_scene,
                     user_choices_made |-> g2.user_choices_made,
                     choices_remaining |-> 5 - g2.user_choices_made,
                     danger_level |-> g2.current_danger_level,
                     status |-> "story_continued"],
                    <<Call("continue_narrative", g2)>>, <<"single_track">>)
        ELSE Result(g2, [raised |-> TRUE, status |-> "UnboundLocalError"],
                    <<Call("continue_narrative", g2)>>, <<"single_track">>)

\* create_epic_climax_video
create_epic_climax_video(g, media, vid) ==
    LET seed_image == IF g.generated_images # <<>>
                      THEN g.generated_images[Len(g.generated_images)]
                      ELSE None
        gen == IF media /\ seed_image # None
               THEN generate_video_from_image_seed(g, seed_image, vid)
               ELSE Result(g, None, <<>>, <<>>)
        g2 == IF gen.ret # None
              THEN [gen.g EXCEPT !.generated_videos = Append(@, gen.ret)]
              ELSE gen.g
    IN  Result(g2,
               [generated_file |-> gen.ret,
                seed_image |-> seed_image,
                status |-> IF gen.ret # None THEN "epic_video_generated"
                           ELSE "epic_video_failed"],
               gen.log, <<>>)

\* create_story_climax
create_story_climax(g, media, final_choice, vid, img) ==
    LET epic_video == create_epic_climax_video(g, media, vid)
        image_result == create_single_choice_image(epic_video.g, media, img)
        g2 == [image_result.g EXCEPT
                  !.story_history = Append(@, Event("story_climax", final_choice, 0)),
                  !.current_danger_level = 10]
    IN  Result(g2,
               [raised |-> FALSE,
                epic_climax_video |-> epic_video.ret,
                backup_image_result |-> image_result.ret,
                story_complete |-> TRUE,
                status |-> "epic_story_completed_successfully"],
               epic_video.log \o image_result.log \o <<Call("create_story_climax", g2)>>,
               <<"lyria_session">>)

\* a get_story_status whose first threshold is off by one (a variant the
\* stage property must tell apart from the code)
get_story_status_through_three(g) ==
    [current_scene |-> g.current_scene,
     current_mood |-> g.current_mood,
     characters_present |-> g.characters_present,
     story_events |-> Len(g.story_history),
     danger_level |-> g.current_danger_level,
     generated_media |-> [images |-> Len(g.generated_images),
                          videos |-> Len(g.generated_videos),
                          music |-> Len(g.generated_music)],
     story_stage |-> IF Len(g.story_history) <= 3 THEN "beginning"
                     ELSE IF Len(g.story_history) < 8 THEN "middle"
                     ELSE "climax",
     status |-> "story_active"]

\* get_story_status
\* get_story_status
get_story_status(g) ==
    [current_scene |-> g.current_scene,
     current_mood |-> g.current_mood,
     characters_present |-> g.characters_present,
     story_events |-> Len(g.story_history),
     danger_level |-> g.current_danger_level,
     generated_media |-> [images |-> Len(g.generated_images),
                          videos |-> Len(g.generated_videos),
                          music |-> Len(g.generated_music)],
     story_stage |-> IF Len(g.story_history) < 3 THEN "beginning"
                     ELSE IF Len(g.story_history) < 8 THEN "middle"
                     ELSE "climax",
     status |-> "story_active"]

-----------------------------------------------------------------------------
(* Provider outcomes, clock and observer                                   *)

\* what one image provider call can produce at clock c
ImageOutcomes(g, media, c) ==
    {None} \cup
    (IF media /\ Len(g.generated_images) < MaxImages
     THEN {File("generated_scene", t) : t \in Seconds(c)} ELSE {})

\* what one video provider operation can produce at clock c
VideoOutcomes(g, media, c) ==
    {None} \cup
    (IF media /\ Len(g.generated_videos) < MaxVideos
     THEN {File("generated_video", t) : t \in Seconds(c)} ELSE {})

\* the answers of the text collaborator to the choice prompt
ChoiceAnswers ==
    {None,
     [lines |-> << <<"Here", "are", "your", "options">>, <<"A:", "fight">>,
                   <<"C:", "talk">> >>]}

\* the answers of the text collaborator to the narrative prompt
NarrativeAnswers == {None, <<"The", "alarm", "sounds">>}

\* the clock after a read that produced file f (None: no read reached the name)
ClockAfter(c, f) == IF f = None THEN c ELSE f.ts

\* the observer after an entry point that made the calls in log
RECURSIVE AuditAfter(_, _)
AuditAfter(a, log) ==
    IF log = <<>> THEN a
    ELSE LET call == Head(log).call
             b == CASE call = "start_new_adventure" ->
                         [a EXCEPT !.images_generated = 0, !.climax_done = FALSE,
                                   !.adventures = @ + 1]
                    [] call = "image_generated" ->
                         [a EXCEPT !.images_generated = @ + 1]
                    [] call = "create_story_climax" ->
                         [a EXCEPT !.climax_done = TRUE]
                    [] OTHER -> a
         IN  AuditAfter(b, Tail(log))

-----------------------------------------------------------------------------
(* Music threads                                                           *)

\* the pool of music threads of the run
Threads == DOMAIN threads

NoThread == [pc |-> "free", kind |-> "", received |-> 0]

FreeThreads == {t \in Threads : threads[t].pc = "free"}

\* threading.Thread(...).start() for each kind in spawn (at most one per entry point)
Started(spawn) ==
    IF spawn = <<>> THEN threads
    ELSE LET t == CHOOSE u \in FreeThreads : \A v \in FreeThreads : u <= v
         IN  [threads EXCEPT ![t] = [pc |-> "streaming", kind |-> spawn[1],
                                     received |-> 0]]

CanStart(spawn) == spawn = <<>> \/ FreeThreads # {}

\* the thread's function after start_lyria_streaming_session returns: the
\* thread of generate_scene_music goes on to pick the latest track, the
\* thread of orchestrate_adaptive_music ends
AfterSession(thread) ==
    IF thread.kind = "single_track"
    THEN [thread EXCEPT !.pc = "select"]
    ELSE NoThread

\* handle_audio_chunk: one chunk arrives; buffered is FALSE when writing
\* the chunk file raised
MusicReceiveChunk(t, buffered) ==
    /\ threads[t].pc = "streaming"
    /\ threads[t].received < MaxChunks
    /\ Len(game_state.audio_state.current_session_chunks) < MaxChunks * Cardinality(Threads)
    /\ threads' = [threads EXCEPT ![t].received = @ + 1]
    /\ game_state' =
         IF buffered
         THEN [game_state EXCEPT !.audio_state.current_session_chunks =
                   Append(@, [session |-> t, n |-> threads[t].received + 1])]
         ELSE game_state
    /\ UNCHANGED <<MEDIA_GENERATION_AVAILABLE, response, audit, clock, operation>>

\* start_lyria_streaming_session raised (no client, connect or stream error)
MusicSessionFailed(t) ==
    /\ threads[t].pc = "streaming"
    /\ threads' = [threads EXCEPT ![t] = AfterSession(@)]
    /\ UNCHANGED <<game_state, MEDIA_GENERATION_AVAILABLE, response, audit, clock, operation>>

\* create_final_audio_track: written is FALSE when building the file raised
create_final_audio_track(g, t, written) ==
    LET chunks == g.audio_state.current_session_chunks
        final == [kind |-> "lyria_final", session |-> t, content |-> chunks]
    IN  IF chunks = <<>> \/ ~written
        THEN Result(g, None, <<>>, <<>>)
        ELSE Result([g EXCEPT !.generated_music = Append(@, final),
                              !.audio_state.current_session_chunks = <<>>],
                    final, <<>>, <<>>)

\* start_lyria_streaming_session when connecting or streaming raised, or
\* no client could be made: the dict it returns
lyria_session_failed == [music_status |-> "failed", final_track |-> None]

\* start_lyria_streaming_session after its receive loop ended with
\* audio_chunks_received = received
start_lyria_streaming_session(g, t, received, written) ==
    LET final == IF received > 0
                 THEN create_final_audio_track(g, t, written)
                 ELSE Result(g, None, <<>>, <<>>)
    IN  Result(final.g,
               [music_status |-> "streaming_completed",
                chunks_received |-> received,
                final_track |-> final.ret],
               <<>>, <<>>)

\* the receive loop ended (timeout or end of stream)
MusicStreamEnd(t, written) ==
    /\ threads[t].pc = "streaming"
    /\ written => Len(game_state.generated_music) < MaxMusic
    /\ LET r == start_lyria_streaming_session(game_state, t, threads[t].received, written)
       IN  /\ game_state' = r.g
           /\ threads' = [threads EXCEPT ![t] = AfterSession(@)]
    /\ UNCHANGED <<MEDIA_GENERATION_AVAILABLE, response, audit, clock, operation>>

\* generate_single_music_track after the session: the latest final track
generate_single_music_track(g) ==
    IF g.generated_music # <<>> THEN g.generated_music[Len(g.generated_music)]
    ELSE EmptyName

MusicSelectTrack(t) ==
    /\ threads[t].pc = "select"
    /\ threads' = [threads EXCEPT ![t] = NoThread]
    /\ UNCHANGED <<game_state, MEDIA_GENERATION_AVAILABLE, response, audit, clock, operation>>

-----------------------------------------------------------------------------
(* HTTP handlers (src/backend/app.py)                                      *)

\* no video operation is being polled
NoOperation == [pc |-> "idle", polls |-> 0, prompt |-> <<>>]

\* the state after an entry point: its result r, the calls it completed,
\* the threads it started, the clock c and what it returned
Finish(r, log, spawn, c, resp) ==
    /\ CanStart(spawn)
    /\ Len(r.g.story_history) <= MaxHistory
    /\ game_state' = r.g
    /\ threads' = Started(spawn)
    /\ audit' = AuditAfter(audit, log)
    /\ clock' = c
    /\ response' = resp
    /\ UNCHANGED MEDIA_GENERATION_AVAILABLE

\* an entry point that runs from start to end on the event loop: it is not
\* served while a handler sleeps in a video poll loop
Complete(r, log, spawn, c, resp) ==
    /\ operation = NoOperation
    /\ Finish(r, log, spawn, c, resp)
    /\ UNCHANGED operation

\* POST /api/start-story
start_story(story_request, img, txt) ==
    LET media == MEDIA_GENERATION_AVAILABLE
        init_result == start_new_adventure(game_state, story_request)
        opening_result == begin_opening_scene(init_result.g, media, img)
        choice_result == present_story_choice(opening_result.g, <<>>, <<>>, <<>>, <<>>, txt)
        log == <<Call("/start-story", game_state)>> \o init_result.log
               \o opening_result.log \o choice_result.log
    IN  Complete(choice_result, log, <<>>, ClockAfter(clock, img),
                 [op |-> "/start-story", status |-> 200, log |-> log,
                  body |-> [choices |-> <<choice_result.ret.choice_a,
                                          choice_result.ret.choice_b,
                                          choice_result.ret.choice_c>>,
                            scene_description |-> init_result.ret.setting,
                            mood |-> choice_result.g.current_mood,
                            story_complete |-> FALSE,
                            choices_remaining |-> 5,
                            current_choice |-> 0,
                            total_choices |-> 5]])

StartStory ==
    /\ audit.adventures < MaxAdventures
    /\ \E story_request \in StoryRequests, txt \in ChoiceAnswers :
        \E img \in ImageOutcomes(game_state, MEDIA_GENERATION_AVAILABLE, clock) :
          start_story(story_request, img, txt)

\* a routing test that is off by one (a variant the routing property must
\* tell apart from the code)
MoreChoicesThroughFive(user_choices_made) == user_choices_made <= 5

\* the branch of make_choice for the count resolve_user_choice returned
MoreChoicesNeeded(user_choices_made) == user_choices_made < 5

\* make_choice when more choices are needed: continue_narrative, then
\* present_story_choice
make_choice_continue(choice_result, c, log0, choices_txt) ==
    LET narrative_result == continue_narrative(choice_result.g)
        next_choice_result ==
            present_story_choice(narrative_result.g, <<>>, <<>>, <<>>, <<>>, choices_txt)
        user_choices_made == choice_result.ret.user_choices_made
    IN  IF narrative_result.ret.raised
        THEN Complete(narrative_result, log0 \o narrative_result.log,
                      narrative_result.spawn, c,
                      [op |-> "/make-choice", status |-> 500,
                       log |-> log0 \o narrative_result.log,
                       body |-> [detail |-> "Choice processing failed"]])
        ELSE Complete(next_choice_result,
                      log0 \o narrative_result.log \o next_choice_result.log,
                      narrative_result.spawn, c,
                      [op |-> "/make-choice", status |-> 200,
                       log |-> log0 \o narrative_result.log \o next_choice_result.log,
                       body |-> [narrative |-> choice_result.ret.ai_narrative,
                                 choices |-> <<next_choice_result.ret.choice_a,
                                               next_choice_result.ret.choice_b,
                                               next_choice_result.ret.choice_c>>,
                                 scene_description |-> narrative_result.ret.current_scene,
                                 story_complete |-> FALSE,
                                 choices_remaining |-> 5 - user_choices_made,
                                 current_choice |-> user_choices_made,
                                 total_choices |-> 5]])

\* make_choice on the final choice: create_story_climax
make_choice_climax(choice_result, c, log0, choice, vid, img2) ==
    LET climax_result ==
            create_story_climax(choice_result.g, MEDIA_GENERATION_AVAILABLE, choice, vid, img2)
    IN  Complete(climax_result, log0 \o climax_result.log, climax_result.spawn,
                 ClockAfter(ClockAfter(c, vid), img2),
                 [op |-> "/make-choice", status |-> 200,
                  log |-> log0 \o climax_result.log,
                  body |-> [narrative |-> choice_result.ret.ai_narrative,
                            choices |-> <<>>,
                            scene_description |->
                                climax_result.g.current_scene \o <<"-", "FINALE">>,
                            story_complete |-> TRUE,
                            choices_remaining |-> 0,
                            current_choice |-> 5,
                            total_choices |-> 5]])

\* POST /api/make-choice
make_choice(choice, txt, img) ==
    LET media == MEDIA_GENERATION_AVAILABLE
        choice_result == resolve_user_choice(game_state, media, choice, txt, img)
        c == ClockAfter(clock, img)
        log0 == <<Call("/make-choice", game_state)>> \o choice_result.log
    IN  IF MoreChoicesNeeded(choice_result.ret.user_choices_made)
        THEN \E choices_txt \in ChoiceAnswers :
               make_choice_continue(choice_result, c, log0, choices_txt)
        ELSE \E vid \in VideoOutcomes(choice_result.g, media, c) :
               \E img2 \in ImageOutcomes(choice_result.g, media, ClockAfter(c, vid)) :
                 make_choice_climax(choice_result, c, log0, choice, vid, img2)

MakeChoice ==
    /\ game_state.user_choices_made < MaxChoicesMade
    /\ game_state.current_danger_level < MaxDanger
    /\ \E choice \in ChoiceTexts, txt \in NarrativeAnswers :
         \E img \in ImageOutcomes(game_state, MEDIA_GENERATION_AVAILABLE, clock) :
           make_choice(choice, txt, img)

\* GET /api/story-status
story_status ==
    /\ response' = [op |-> "/story-status", status |-> 200,
                    log |-> <<Call("get_story_status", game_state)>>,
                    body |-> get_story_status(game_state)]
    /\ UNCHANGED <<game_state, MEDIA_GENERATION_AVAILABLE, threads, audit, clock, operation>>

StoryStatus == story_status

-----------------------------------------------------------------------------
(* Specification of the HTTP boundary                                      *)

NoResponse == [op |-> "", status |-> 0, log |-> <<>>, body |-> <<>>]

\* the process after import, with room for n music threads
InitWith(n) ==
    /\ game_state = GameState
    /\ MEDIA_GENERATION_AVAILABLE \in BOOLEAN
    /\ threads = [t \in 1..n |-> NoThread]
    /\ response = NoResponse
    /\ audit = [images_generated |-> 0, climax_done |-> FALSE, adventures |-> 0]
    /\ clock = 0
    /\ operation = NoOperation

Init == InitWith(MaxThreads)

MusicThread ==
    \E t \in Threads :
      \/ \E buffered \in BOOLEAN : MusicReceiveChunk(t, buffered)
      \/ MusicSessionFailed(t)
      \/ \E written \in BOOLEAN : MusicStreamEnd(t, written)
      \/ MusicSelectTrack(t)

Next ==
    \/ StartStory
    \/ MakeChoice
    \/ StoryStatus
    \/ MusicThread

Spec == Init /\ [][Next]_vars

-----------------------------------------------------------------------------
(* Tools of the dream_director agent (src/agents/agent.py), called in any  *)
(* order by the language model                                             *)

\* generate_scene_music: starts the single-track thread and returns
generate_scene_music(g) ==
    Result(g,
           [music_status |-> "generating_single_track",
            status |-> "music_generation_initiated"],
           <<Call("generate_scene_music", g)>>, <<"single_track">>)

\* the state after the tool 'name' returned r at clock c
ToolComplete(name, r, c) ==
    /\ Len(r.g.story_history) <= MaxToolHistory
    /\ Complete(r, r.log, r.spawn, c,
                [op |-> name, status |-> 200, log |-> r.log, body |-> r.ret])

\* the choice texts the language model passes to present_story_choice
ChoiceParams == {<<>>, <<"fight">>}

ToolStartNewAdventure ==
    /\ audit.adventures < MaxAdventures
    /\ \E user_story_request \in StoryRequests :
         ToolComplete("start_new_adventure",
                      start_new_adventure(game_state, user_story_request), clock)

ToolBeginOpeningScene ==
    \E img \in ImageOutcomes(game_state, MEDIA_GENERATION_AVAILABLE, clock) :
      ToolComplete("begin_opening_scene",
                   begin_opening_scene(game_state, MEDIA_GENERATION_AVAILABLE, img),
                   ClockAfter(clock, img))

ToolPresentStoryChoice ==
    \E choice \in ChoiceParams, txt \in ChoiceAnswers :
      ToolComplete("present_story_choice",
                   present_story_choice(game_state, <<>>, choice, choice, choice, txt),
                   clock)

ToolResolveUserChoice ==
    /\ game_state.user_choices_made < MaxChoicesMade
    /\ game_state.current_danger_level < MaxDanger
    /\ \E chosen_option \in ChoiceTexts, txt \in NarrativeAnswers :
         \E img \in ImageOutcomes(game_state, MEDIA_GENERATION_AVAILABLE, clock) :
           ToolComplete("resolve_user_choice",
                        resolve_user_choice(game_state, MEDIA_GENERATION_AVAILABLE,
                                            chosen_option, txt, img),
                        ClockAfter(clock, img))

ToolContinueNarrative ==
    ToolComplete("continue_narrative", continue_narrative(game_state), clock)

ToolCreateStoryClimax ==
    \E final_choice \in ChoiceTexts :
      \E vid \in VideoOutcomes(game_state, MEDIA_GENERATION_AVAILABLE, clock) :
        \E img \in ImageOutcomes(game_state, MEDIA_GENERATION_AVAILABLE,
                                 ClockAfter(clock, vid)) :
          ToolComplete("create_story_climax",
                       create_story_climax(game_state, MEDIA_GENERATION_AVAILABLE,
                                           final_choice, vid, img),
                       ClockAfter(ClockAfter(clock, vid), img))

ToolGenerateSceneMusic ==
    ToolComplete("generate_scene_music", generate_scene_music(game_state), clock)

ToolGetStoryStatus ==
    /\ response' = [op |-> "get_story_status", status |-> 200,
                    log |-> <<Call("get_story_status", game_state)>>,
                    body |-> get_story_status(game_state)]
    /\ UNCHANGED <<game_state, MEDIA_GENERATION_AVAILABLE, threads, audit, clock, operation>>

AgentNext ==
    \/ ToolStartNewAdventure
    \/ ToolBeginOpeningScene
    \/ ToolPresentStoryChoice
    \/ ToolResolveUserChoice
    \/ ToolContinueNarrative
    \/ ToolCreateStoryClimax
    \/ ToolGenerateSceneMusic
    \/ ToolGetStoryStatus
    \/ MusicThread

AgentSpec == Init /\ [][AgentNext]_vars

-----------------------------------------------------------------------------
(* POST /api/generate-media (src/backend/app.py) and the video poll loop    *)

\* the prompts sent to /generate-media; the image branch uses the prompt as
\* the location
MediaPrompts == {<<"castle">>, <<"harbour">>}

\* a generate_direct_video that counts the attempt when the provider
\* produced no video (a variant the budget property must tell apart from
\* the code)
generate_direct_video_counting_attempt(g, vid) ==
    LET g2 == [g EXCEPT !.scene_media_count.videos = @ + 1]
    IN  IF vid = None
        THEN Result(g2, None, <<Call("video_failed", g2)>>, <<>>)
        ELSE Result([g2 EXCEPT !.generated_videos = Append(@, vid)],
                    vid, <<Call("video_generated", g2)>>, <<>>)

\* generate_direct_video after its poll loop ended: vid is the file the
\* finished operation produced, or None (no client, an error, no video)
generate_direct_video(g, vid) ==
    IF vid = None
    THEN Result(g, None, <<Call("video_failed", g)>>, <<>>)
    ELSE Result([g EXCEPT !.generated_videos = Append(@, vid),
                          !.scene_media_count.videos = @ + 1],
                vid, <<Call("video_generated", g)>>, <<>>)

\* what the video operation of generate_direct_video can produce at clock c
DirectVideoOutcomes(g, media, c) ==
    {None} \cup
    (IF media /\ Len(g.generated_videos) < MaxVideos
     THEN {File("generated_video_direct", t) : t \in Seconds(c)} ELSE {})

\* orchestrate_adaptive_music: starts the Lyria session thread and returns
orchestrate_adaptive_music(g) ==
    Result(g,
           [music_status |-> "lyria_streaming_active",
            lyria_session |-> "initiated",
            status |-> "music_orchestration_with_real_audio_complete"],
           <<Call("orchestrate_adaptive_music", g)>>, <<"lyria_session">>)

\* the response of generate_media
MediaResponse(type, result, generated_files, log) ==
    [op |-> "/generate-media", status |-> 200, log |-> log,
     body |-> [status |-> "success",
               type |-> type,
               result |-> result,
               generated_file |-> IF generated_files # <<>>
                                  THEN generated_files[Len(generated_files)]
                                  ELSE None,
               total_files |-> Len(generated_files)]]

\* generate_media, type "image"
generate_media_image(prompt, img) ==
    LET result == generate_establishing_scene(game_state, MEDIA_GENERATION_AVAILABLE,
                                              prompt, img)
        log == <<Call("/generate-media", game_state)>> \o result.log
    IN  Complete(result, log, <<>>, ClockAfter(clock, img),
                 MediaResponse("image", result.ret, result.g.generated_images, log))

GenerateMediaImage ==
    \E prompt \in MediaPrompts :
      \E img \in ImageOutcomes(game_state, MEDIA_GENERATION_AVAILABLE, clock) :
        generate_media_image(prompt, img)

\* generate_media, type "music"
generate_media_music ==
    LET result == orchestrate_adaptive_music(game_state)
        log == <<Call("/generate-media", game_state)>> \o result.log
    IN  Complete(result, log, result.spawn, clock,
                 MediaResponse("music", result.ret, game_state.generated_music, log))

GenerateMediaMusic == generate_media_music

\* generate_media, type "video", after generate_direct_video returned:
\* result.update(...) raises on the str or None that generate_direct_video
\* returns, so with a video in generated_videos the except branch falls back
\* to generate_establishing_scene; with none the else branch falls back to
\* create_single_choice_image
generate_media_video(prompt, vid, img) ==
    LET media == MEDIA_GENERATION_AVAILABLE
        video == generate_direct_video(game_state, vid)
        result == IF video.g.generated_videos # <<>>
                  THEN generate_establishing_scene(video.g, media, prompt, img)
                  ELSE create_single_choice_image(video.g, media, img)
        log == <<Call("/generate-media", game_state)>> \o video.log \o result.log
    IN  /\ Finish(result, log, <<>>, ClockAfter(ClockAfter(clock, vid), img),
                  MediaResponse("video", result.ret, result.g.generated_images, log))
        /\ operation' = NoOperation

\* generate_media, type "video", up to the poll loop: generate_direct_video
\* has issued the operation
GenerateMediaVideo ==
    /\ operation = NoOperation
    /\ \E prompt \in MediaPrompts :
         operation' = [pc |-> "polling", polls |-> 0, prompt |-> prompt]
    /\ UNCHANGED <<game_state, MEDIA_GENERATION_AVAILABLE, threads, response, audit, clock>>

\* while not operation.done: the test finds the operation not done and the
\* handler goes to sleep
VideoPollNotDone ==
    /\ operation.pc = "polling"
    /\ operation' = [operation EXCEPT !.pc = "sleeping"]
    /\ UNCHANGED <<game_state, MEDIA_GENERATION_AVAILABLE, threads, response, audit, clock>>

\* time.sleep(20); operation = client.operations.get(operation): back to the
\* loop test (polls counts the polls up to MaxPolls and stays there)
VideoPollAgain ==
    /\ operation.pc = "sleeping"
    /\ operation' = [operation EXCEPT !.pc = "polling",
                                      !.polls = Min(@ + 1, MaxPolls)]
    /\ UNCHANGED <<game_state, MEDIA_GENERATION_AVAILABLE, threads, response, audit, clock>>

\* the loop test finds the operation done, or client.operations.get raised:
\* the handler runs to its end
VideoPollDone ==
    /\ operation.pc \in {"polling", "sleeping"}
    /\ \E vid \in IF operation.pc = "polling"
                   THEN DirectVideoOutcomes(game_state, MEDIA_GENERATION_AVAILABLE, clock)
                   ELSE {None} :
         \E img \in ImageOutcomes(game_state, MEDIA_GENERATION_AVAILABLE,
                                  ClockAfter(clock, vid)) :
           generate_media_video(operation.prompt, vid, img)

\* the image and video requests of /generate-media between adventures
MediaNext ==
    \/ StartStory
    \/ GenerateMediaImage
    \/ GenerateMediaVideo
    \/ VideoPollNotDone
    \/ VideoPollAgain
    \/ VideoPollDone

MediaSpec == Init /\ [][MediaNext]_vars

\* the handler that is inside generate_direct_video keeps running: its
\* thread is never starved, whatever the provider answers
VideoPoll == VideoPollNotDone \/ VideoPollAgain \/ VideoPollDone

MediaLiveSpec == MediaSpec /\ WF_vars(VideoPoll)

-----------------------------------------------------------------------------
(* The music threads of /generate-media statement by statement             *)

\* create_final_audio_track up to the combined file: the thread has read
\* the chunk buffer (with an empty buffer it returns None at once)
MusicCombineBegin(t) ==
    /\ threads[t].pc = "streaming"
    /\ threads[t].received > 0
    /\ threads' =
         IF game_state.audio_state.current_session_chunks = <<>>
         THEN [threads EXCEPT ![t] = AfterSession(@)]
         ELSE [threads EXCEPT ![t] =
                  [pc |-> "combining", kind |-> @.kind, received |-> @.received,
                   chunks |-> game_state.audio_state.current_session_chunks]]
    /\ UNCHANGED <<game_state, MEDIA_GENERATION_AVAILABLE, response, audit, clock, operation>>

\* create_final_audio_track from generated_music.append to the end: the
\* track holds what the thread read, and the buffer is replaced by [] with
\* whatever it holds by now; written is FALSE when building the file raised
MusicCombineEnd(t, written) ==
    /\ threads[t].pc = "combining"
    /\ written => Len(game_state.generated_music) < MaxMusic
    /\ game_state' =
         IF written
         THEN [game_state EXCEPT
                  !.generated_music =
                      Append(@, [kind |-> "lyria_final", session |-> t,
                                 content |-> threads[t].chunks]),
                  !.audio_state.current_session_chunks = <<>>]
         ELSE game_state
    /\ threads' = [threads EXCEPT ![t] =
                      AfterSession([pc |-> @.pc, kind |-> @.kind, received |-> @.received])]
    /\ UNCHANGED <<MEDIA_GENERATION_AVAILABLE, response, audit, clock, operation>>

\* the receive loop ended with audio_chunks_received = 0
MusicSessionEmpty(t) ==
    /\ threads[t].pc = "streaming"
    /\ threads[t].received = 0
    /\ threads' = [threads EXCEPT ![t] = AfterSession(@)]
    /\ UNCHANGED <<game_state, MEDIA_GENERATION_AVAILABLE, response, audit, clock, operation>>

MusicThreadStep ==
    \E t \in Threads :
      \/ \E buffered \in BOOLEAN : MusicReceiveChunk(t, buffered)
      \/ MusicSessionFailed(t)
      \/ MusicSessionEmpty(t)
      \/ MusicCombineBegin(t)
      \/ \E written \in BOOLEAN : MusicCombineEnd(t, written)

MusicInit == InitWith(MaxMusicThreads)

MusicNext ==
    \/ GenerateMediaMusic
    \/ GenerateMediaImage
    \/ MusicThreadStep

MusicSpec == MusicInit /\ [][MusicNext]_vars

-----------------------------------------------------------------------------
(* Tools of the visual sub-agents of ultimate_cinematic_system             *)
(* (cinematic_director, visual_consistency_manager, character_artist,      *)
(* experience_designer), on the game_state start_new_adventure resets      *)

\* the names passed to create_character_portrait
NpcNames == {"Sato", "Guardian"}

\* the keys passed to maintain_visual_memory (one category is modelled;
\* world_knowledge holds the keys stored in it)
MemoryKeys == {"clue", "ally", "map"}

\* a create_character_portrait that does not look for an existing reference
\* (a variant the reference property must tell apart from the code)
create_character_portrait_regenerating(g, media, npc_name, img) ==
    LET should_generate_portrait == g.scene_media_count.images < 1
        gen == IF should_generate_portrait /\ media
               THEN generate_consistent_image(g, img)
               ELSE Result(g, None, <<>>, <<>>)
        g2 == IF gen.ret # None
              THEN [gen.g EXCEPT !.visual_style.character_references =
                                     DictPut(@, npc_name, gen.ret)]
              ELSE gen.g
    IN  Result(g2,
               [npc_name |-> npc_name,
                character_portrait |->
                    [generated_file |-> gen.ret,
                     status |-> IF gen.ret # None THEN "generated" ELSE "prompt_only"],
                adaptive_music |-> trigger_scene_music,
                status |-> "character_portrait_with_music_created"],
               gen.log, <<>>)

\* create_character_portrait
create_character_portrait(g, media, npc_name, img) ==
    IF npc_name \in DOMAIN g.visual_style.character_references
    THEN Result(g,
                [npc_name |-> npc_name,
                 character_portrait |->
                     [existing_reference |-> g.visual_style.character_references[npc_name],
                      status |-> "using_existing_reference"],
                 adaptive_music |-> trigger_scene_music,
                 status |-> "character_reference_maintained_with_music"],
                <<>>, <<>>)
    ELSE LET should_generate_portrait == g.scene_media_count.images < 1
             gen == IF should_generate_portrait /\ media
                    THEN generate_consistent_image(g, img)
                    ELSE Result(g, None, <<>>, <<>>)
             g2 == IF gen.ret # None
                   THEN [gen.g EXCEPT !.visual_style.character_references =
                                          DictPut(@, npc_name, gen.ret)]
                   ELSE gen.g
         IN  Result(g2,
                    [npc_name |-> npc_name,
                     character_portrait |->
                         [generated_file |-> gen.ret,
                          status |-> IF gen.ret # None THEN "generated"
                                     ELSE "prompt_only"],
                     adaptive_music |-> trigger_scene_music,
                     status |-> "character_portrait_with_music_created"],
                    gen.log, <<>>)

\* create_choice_previews: no preview image is generated
create_choice_previews(g) ==
    Result(g,
           [choices |-> [c \in {"A", "B", "C"} |->
                            [preview_image |-> None, status |-> "music_focus_no_preview"]],
            adaptive_music |-> trigger_scene_music,
            status |-> "interactive_choices_with_music_focus"],
           <<>>, <<>>)

\* maintain_visual_memory: every third memory of the category is visualised
maintain_visual_memory(g, media, key, img) ==
    LET g1 == [g EXCEPT !.world_knowledge = @ \cup {key}]
        should_generate_memory == Cardinality(g1.world_knowledge) % 3 = 0
        gen == IF should_generate_memory /\ media
               THEN generate_consistent_image(g1, img)
               ELSE Result(g1, None, <<>>, <<>>)
    IN  Result(gen.g,
               [key |-> key,
                memory_visualization |->
                    [generated_file |-> gen.ret,
                     status |-> IF gen.ret # None THEN "generated" ELSE "prompt_only"],
                status |-> "visual_memory_stored"],
               gen.log, <<>>)

ToolGenerateEstablishingScene ==
    \E location \in MediaPrompts :
      \E img \in ImageOutcomes(game_state, MEDIA_GENERATION_AVAILABLE, clock) :
        ToolComplete("generate_establishing_scene",
                     generate_establishing_scene(game_state, MEDIA_GENERATION_AVAILABLE,
                                                 location, img),
                     ClockAfter(clock, img))

ToolCreateCharacterPortrait ==
    \E npc_name \in NpcNames :
      \E img \in ImageOutcomes(game_state, MEDIA_GENERATION_AVAILABLE, clock) :
        ToolComplete("create_character_portrait",
                     create_character_portrait(game_state, MEDIA_GENERATION_AVAILABLE,
                                               npc_name, img),
                     ClockAfter(clock, img))

ToolCreateChoicePreviews ==
    ToolComplete("create_choice_previews", create_choice_previews(game_state), clock)

ToolCreateDramaticOutcome ==
    \E img \in ImageOutcomes(game_state, MEDIA_GENERATION_AVAILABLE, clock) :
      ToolComplete("create_dramatic_outcome",
                   create_dramatic_outcome(game_state, MEDIA_GENERATION_AVAILABLE, img),
                   ClockAfter(clock, img))

ToolMaintainVisualMemory ==
    \E key \in MemoryKeys :
      \E img \in ImageOutcomes(game_state, MEDIA_GENERATION_AVAILABLE, clock) :
        ToolComplete("maintain_visual_memory",
                     maintain_visual_memory(game_state, MEDIA_GENERATION_AVAILABLE,
                                            key, img),
                     ClockAfter(clock, img))

StudioNext ==
    \/ ToolStartNewAdventure
    \/ ToolGenerateEstablishingScene
    \/ ToolCreateCharacterPortrait
    \/ ToolCreateChoicePreviews
    \/ ToolCreateDramaticOutcome
    \/ ToolMaintainVisualMemory

StudioSpec == Init /\ [][StudioNext]_vars

-----------------------------------------------------------------------------
(* The story tools of dream_director over several adventures, in a process *)
(* where the GenAI SDK is missing: no image is generated and every music  *)
(* session fails for want of a client                                      *)

\* the requests passed to start_new_adventure
StoryTexts ==
    {<<"a", "cyberpunk", "dragon", "tale">>,
     <<"Dragon", "in", "the", "forest">>,
     <<"an", "enchanted", "forest">>,
     <<"explore", "Atlantis">>}

\* the state after story tool 'name' returned r
StoryComplete(name, r) ==
    /\ Len(r.g.story_history) <= MaxStoryHistory
    /\ Complete(r, r.log, r.spawn, clock,
                [op |-> name, status |-> 200, log |-> r.log, body |-> r.ret])

StoryStartNewAdventure ==
    /\ audit.adventures < MaxStoryAdventures
    /\ \E user_story_request \in StoryTexts :
         StoryComplete("start_new_adventure",
                       start_new_adventure(game_state, user_story_request))

StoryPresentStoryChoice ==
    StoryComplete("present_story_choice",
                  present_story_choice(game_state, <<>>, <<>>, <<>>, <<>>, None))

StoryResolveUserChoice ==
    /\ game_state.user_choices_made < MaxChoicesMade
    /\ game_state.current_danger_level < MaxDanger
    /\ \E chosen_option \in ChoiceTexts :
         StoryComplete("resolve_user_choice",
                       resolve_user_choice(game_state, MEDIA_GENERATION_AVAILABLE,
                                           chosen_option, None, None))

StoryContinueNarrative ==
    StoryComplete("continue_narrative", continue_narrative(game_state))

\* the single-track thread without a client: its session fails, then it
\* picks the latest track
StoryThread ==
    \E t \in Threads :
      \/ MusicSessionFailed(t)
      \/ MusicSelectTrack(t)

StoryInit == Init /\ ~MEDIA_GENERATION_AVAILABLE

StoryNext ==
    \/ StoryStartNewAdventure
    \/ StoryPresentStoryChoice
    \/ StoryResolveUserChoice
    \/ StoryContinueNarrative
    \/ StoryThread

StorySpec == StoryInit /\ [][StoryNext]_vars

-----------------------------------------------------------------------------
(* start_new_adventure over requests that combine the keywords             *)

RequestWords ==
    {"cyberpunk", "detective", "fantasy", "knight", "Dragon", "forest", "magic",
     "Atlantis"}

\* the requests of one to MaxRequestWords words
ClassifyRequests ==
    UNION {[1..n -> RequestWords] : n \in 1..MaxRequestWords}

ClassifyStartNewAdventure ==
    /\ audit.adventures < MaxStoryAdventures
    /\ \E user_story_request \in ClassifyRequests :
         LET r == start_new_adventure(game_state, user_story_request)
         IN  Complete(r, r.log, r.spawn, clock,
                      [op |-> "start_new_adventure", status |-> 200,
                       log |-> r.log, body |-> r.ret])

ClassifyNext == ClassifyStartNewAdventure

ClassifySpec == Init /\ [][ClassifyNext]_vars

-----------------------------------------------------------------------------
(* present_story_choice over the answers of the text collaborator          *)

\* the lines an answer to the choice prompt is made of
AnswerLines ==
    {<<"A:", "fight">>, <<"A:", "run">>, <<"B:", "hide">>, <<"C:", "talk">>,
     <<"Here", "are", "your", "options">>}

\* response.text split into lines, or None when the client is missing, the
\* call raised or the response carries no text
RECURSIVE AnswersOfLength(_)
AnswersOfLength(n) ==
    IF n = 0 THEN {<<>>}
    ELSE {Append(lines, line) : lines \in AnswersOfLength(n - 1), line \in AnswerLines}

CollaboratorAnswers ==
    {None} \cup {[lines |-> lines] :
                   lines \in UNION {AnswersOfLength(n) : n \in 1..MaxAnswerLines}}

\* present_story_choice("") as the handlers call it; the answer of the
\* collaborator is kept beside the calls of the response
ChoicePresentStoryChoice ==
    \E txt \in CollaboratorAnswers :
      LET r == present_story_choice(game_state, <<>>, <<>>, <<>>, <<>>, txt)
          log == r.log \o <<[call |-> "generate_content", answer |-> txt]>>
      IN  /\ Len(r.g.story_history) <= MaxToolHistory
          /\ Complete(r, log, r.spawn, clock,
                      [op |-> "present_story_choice", status |-> 200,
                       log |-> log, body |-> r.ret])

ChoiceNext == ChoicePresentStoryChoice

ChoiceSpec == Init /\ [][ChoiceNext]_vars

-----------------------------------------------------------------------------
(* Properties                                                              *)

\* the positions of the calls of function 'name' in the last entry point's log
LogCalls(name) == {i \in 1..Len(response.log) : response.log[i].call = name}

Called(name) == LogCalls(name) # {}

\* start_new_adventure has run in this process
InAdventure == audit.adventures >= 1

\* an adventure was started in this step
AdventureStarted == audit'.adventures # audit.adventures

\* C1: in every sequence of boundary requests inside one adventure, each
\* resolve_user_choice call raises user_choices_made by exactly 1,
\* user_choices_made never decreases, and it never exceeds 5.
C1_ChoiceCounter ==
    InAdventure =>
    /\ game_state.user_choices_made <= 5
    /\ \A i \in 2..Len(response.log) :
         /\ response.log[i].call # "start_new_adventure"
              => response.log[i].user_choices_made >= response.log[i-1].user_choices_made
         /\ response.log[i].call = "resolve_user_choice"
              => response.log[i].user_choices_made = response.log[i-1].user_choices_made + 1

\* C2: in every state reachable through the structured flow, whatever the
\* image provider does, scene_media_count['images'] is at most 1 and at most
\* one image has been generated since the last start_new_adventure.
C2_ImageBudget ==
    InAdventure =>
    /\ game_state.scene_media_count.images <= 1
    /\ audit.images_generated <= 1

\* C3: the /make-choice request that resolves the 5th choice calls
\* create_story_climax and never continue_narrative, and answers
\* story_complete = true with no choices; every earlier /make-choice calls
\* continue_narrative and never create_story_climax.
C3_ClimaxRouting ==
    (InAdventure /\ response.op = "/make-choice") =>
      \A i \in LogCalls("resolve_user_choice") :
        /\ response.log[i].user_choices_made = 5 =>
             /\ Called("create_story_climax")
             /\ ~Called("continue_narrative")
             /\ response.status = 200
             /\ response.body.story_complete = TRUE
             /\ response.body.choices = <<>>
        /\ response.log[i].user_choices_made < 5 =>
             /\ Called("continue_narrative")
             /\ ~Called("create_story_climax")

\* the fifth choice was resolved by /make-choice and the climax ran
C3_Witness ==
    /\ InAdventure
    /\ response.op = "/make-choice"
    /\ game_state.user_choices_made = 5
    /\ Called("create_story_climax")
    /\ response.body.story_complete = TRUE

\* C4: create_story_climax invoked while user_choices_made < 5 is rejected:
\* it reports an error and leaves current_danger_level, story_history,
\* scene_media_count and the generated-asset lists unchanged.
C4_EarlyClimaxRejected ==
    [][(ToolCreateStoryClimax /\ game_state.user_choices_made < 5) =>
         /\ response'.body.status # "epic_story_completed_successfully"
         /\ game_state'.current_danger_level = game_state.current_danger_level
         /\ game_state'.story_history = game_state.story_history
         /\ game_state'.scene_media_count = game_state.scene_media_count
         /\ game_state'.generated_images = game_state.generated_images
         /\ game_state'.generated_videos = game_state.generated_videos
         /\ game_state'.generated_music = game_state.generated_music]_vars

\* C5: once create_story_climax has completed in an adventure, no later
\* request changes user_choices_made, current_danger_level, current_scene or
\* story_history, and none generates an image or a video, until the next
\* start_new_adventure.
C5_ClimaxTerminal ==
    [][(InAdventure /\ audit.climax_done /\ ~AdventureStarted) =>
         /\ game_state'.user_choices_made = game_state.user_choices_made
         /\ game_state'.current_danger_level = game_state.current_danger_level
         /\ game_state'.current_scene = game_state.current_scene
         /\ game_state'.story_history = game_state.story_history
         /\ game_state'.generated_images = game_state.generated_images
         /\ game_state'.generated_videos = game_state.generated_videos]_vars

\* C6: current_danger_level is within 1..10 in every reachable state and in
\* every value a function of the flow hands back to its caller.
C6_DangerInRange ==
    /\ game_state.current_danger_level \in 1..10
    /\ \A i \in 1..Len(response.log) : response.log[i].danger_level \in 1..10

\* C7: within one adventure no resolve_user_choice, continue_narrative or
\* create_story_climax step of the boundary flow leaves current_danger_level
\* lower than it was before the step.
C7_DangerMonotone ==
    InAdventure =>
    \A i \in 2..Len(response.log) :
      response.log[i].call \in {"resolve_user_choice", "continue_narrative",
                                "create_story_climax"}
        => response.log[i].danger_level >= response.log[i-1].danger_level

\* C8: in the adventure started with "a cyberpunk detective story" (the
\* cyberpunk template), the first resolve_user_choice("A") leaves
\* user_choices_made = 1 and current_danger_level = 2, and the following
\* continue_narrative sets current_scene to "A hidden underground resistance
\* hideout beneath Neo-Tokyo" and current_danger_level to 5.
C8_CyberpunkEndToEnd ==
    (/\ InAdventure
     /\ response.op = "/make-choice"
     /\ game_state.visual_style.art_style = demo_scenarios.cyberpunk.visual_style
     /\ game_state.user_choices_made = 1)
    => /\ \A i \in LogCalls("resolve_user_choice") :
            /\ response.log[i].user_choices_made = 1
            /\ response.log[i].danger_level = 2
       /\ Called("continue_narrative")
       /\ game_state.current_scene = CyberpunkScene1
       /\ game_state.current_danger_level = 5

\* C9: after start_new_adventure returns, from any prior state, story_history
\* is empty, scene_media_count is all zero, user_choices_made is 0,
\* current_scene is the selected template's setting and current_mood is
\* "mysterious".
C9_StartResetsProgress ==
    [][AdventureStarted =>
         /\ game_state'.story_history = <<>>
         /\ game_state'.scene_media_count = [images |-> 0, videos |-> 0, music |-> 0]
         /\ game_state'.user_choices_made = 0
         /\ game_state'.current_scene = SelectScenario(response'.body.user_request).setting
         /\ game_state'.current_mood = "mysterious"]_vars

\* start_new_adventure has returned after a choice was resolved and an image
\* was generated in the same process
C9_Witness ==
    /\ response.op = "start_new_adventure"
    /\ audit.adventures = 1
    /\ game_state.current_danger_level > 1
    /\ game_state.generated_images # <<>>

\* C10: after start_new_adventure returns, current_danger_level,
\* characters_present, the character and location references and the
\* generated image, video and music lists equal their fresh-process values,
\* whatever the previous adventure left behind.
C10_StartPreservesNothing ==
    [][AdventureStarted =>
         /\ game_state'.current_danger_level = GameState.current_danger_level
         /\ game_state'.characters_present = GameState.characters_present
         /\ game_state'.visual_style.character_references
              = GameState.visual_style.character_references
         /\ game_state'.visual_style.location_references
              = GameState.visual_style.location_references
         /\ game_state'.generated_images = GameState.generated_images
         /\ game_state'.generated_videos = GameState.generated_videos
         /\ game_state'.generated_music = GameState.generated_music]_vars

\* text t occurs verbatim in text s
ContainsText(s, t) ==
    \E i \in 0..(Len(s) - Len(t)) : SubSeq(s, i + 1, i + Len(t)) = t

\* C11: when the text collaborator is unreachable or errors,
\* resolve_user_choice still returns (status choice_resolved) a non-empty
\* narrative that contains the chosen option and the current scene verbatim,
\* and user_choices_made is incremented by 1.
C11_FallbackNarrative ==
    [][(ToolResolveUserChoice /\ response'.body.ai_narrative \notin NarrativeAnswers) =>
         /\ response'.body.status = "choice_resolved"
         /\ response'.body.ai_narrative # <<>>
         /\ \E chosen_option \in ChoiceTexts :
              /\ game_state'.story_history[Len(game_state'.story_history)].option
                   = chosen_option
              /\ ContainsText(response'.body.ai_narrative, <<chosen_option>>)
         /\ ContainsText(response'.body.ai_narrative, game_state.current_scene)
         /\ game_state'.user_choices_made = game_state.user_choices_made + 1
         /\ response'.body.user_choices_made = game_state'.user_choices_made]_vars

\* resolve_user_choice has returned the fallback narrative in an adventure
\* whose scene is the cyberpunk setting
C11_Witness ==
    /\ response.op = "resolve_user_choice"
    /\ game_state.current_scene = CyberpunkSetting
    /\ response.body.ai_narrative = FallbackNarrative("A", CyberpunkSetting)

\* the image-generation calls recorded in a log
ImageRequests(log) ==
    {i \in 1..Len(log) : log[i].call \in {"image_generated", "image_failed"}}

\* the music threads started in this step
ThreadsStarted ==
    {t \in Threads : threads[t].pc = "free" /\ threads'[t].pc = "streaming"}

\* C12: begin_opening_scene starts exactly one music generation and, when
\* the image budget is unused, issues an image generation; no other
\* structured-flow operation issues an image generation.
C12_OpeningSceneMedia ==
    [][/\ ToolBeginOpeningScene =>
            /\ Cardinality(ThreadsStarted) = 1
            /\ (game_state.scene_media_count.images = 0 /\ MEDIA_GENERATION_AVAILABLE)
                 => Cardinality(ImageRequests(response'.log)) = 1
       /\ (ToolStartNewAdventure \/ ToolPresentStoryChoice \/ ToolResolveUserChoice
           \/ ToolContinueNarrative \/ ToolCreateStoryClimax)
            => ImageRequests(response'.log) = {}]_vars


\* C13: generate_establishing_scene consults location_references first: a
\* /generate-media image request for a location that already has a stored
\* reference returns that reference, issues no image-generation call and
\* leaves the references as they are, also after start_new_adventure has
\* reset the image count.
C13_LocationReferenceConsulted ==
    [][\A location \in MediaPrompts :
         (/\ GenerateMediaImage
          /\ response'.body.result.location = location
          /\ location \in DOMAIN game_state.visual_style.location_references)
         => /\ response'.body.result.generated_file =
                 game_state.visual_style.location_references[location]
            /\ ImageRequests(response'.log) = {}
            /\ game_state'.visual_style.location_references =
                 game_state.visual_style.location_references]_vars

\* C14: create_character_portrait for a name that already has an entry in
\* character_references returns the stored reference, issues no
\* image-generation call and leaves scene_media_count and
\* character_references unchanged; and no step of any tool removes or
\* replaces an entry of character_references.
C14_CharacterReferenceKept ==
    [][/\ \A npc_name \in NpcNames :
            (/\ ToolCreateCharacterPortrait
             /\ response'.body.npc_name = npc_name
             /\ npc_name \in DOMAIN game_state.visual_style.character_references)
            => /\ response'.body.character_portrait.status = "using_existing_reference"
               /\ response'.body.character_portrait.existing_reference =
                    game_state.visual_style.character_references[npc_name]
               /\ ImageRequests(response'.log) = {}
               /\ game_state'.scene_media_count = game_state.scene_media_count
               /\ game_state'.visual_style.character_references =
                    game_state.visual_style.character_references
       /\ \A name \in DOMAIN game_state.visual_style.character_references :
            /\ name \in DOMAIN game_state'.visual_style.character_references
            /\ game_state'.visual_style.character_references[name] =
                 game_state.visual_style.character_references[name]]_vars

\* C14 witness: after start_new_adventure has reset the image count, a
\* portrait request for a stored name was answered with the stored reference
C14_Witness ==
    /\ response.op = "create_character_portrait"
    /\ response.body.character_portrait.status = "using_existing_reference"
    /\ response.body.npc_name \in DOMAIN game_state.visual_style.character_references
    /\ game_state.scene_media_count.images = 0
    /\ MEDIA_GENERATION_AVAILABLE
    /\ InAdventure

\* the budget: the media counters and the generated-asset lists
Budget(g) ==
    <<g.scene_media_count, g.generated_images, g.generated_videos, g.generated_music>>

\* the provider calls recorded in log that produced no asset / an asset
FailedRequests(log) ==
    {i \in 1..Len(log) : log[i].call \in {"image_failed", "video_failed"}}

SucceededRequests(log) ==
    {i \in 1..Len(log) : log[i].call \in {"image_generated", "video_generated"}}

\* C15: a media generation call that returns no asset consumes no budget.
\* In every reachable state, generate_consistent_image,
\* generate_video_from_image_seed and generate_direct_video with a failing
\* provider return None and leave scene_media_count and the asset lists as
\* they are; and a /generate-media request all of whose provider calls
\* failed leaves them unchanged.
C15_FailureConsumesNoBudget ==
    [][/\ LET r == generate_consistent_image(game_state, None)
          IN  r.ret = None /\ Budget(r.g) = Budget(game_state)
       /\ LET r == generate_direct_video(game_state, None)
          IN  r.ret = None /\ Budget(r.g) = Budget(game_state)
       /\ \A seed \in {None} \cup {game_state.generated_images[i] :
                                       i \in 1..Len(game_state.generated_images)} :
            \A vid \in VideoOutcomes(game_state, MEDIA_GENERATION_AVAILABLE, clock) :
              LET r == generate_video_from_image_seed(game_state, seed, vid)
              IN  r.ret = None => Budget(r.g) = Budget(game_state)
       /\ (/\ GenerateMediaImage \/ VideoPollDone
           /\ FailedRequests(response'.log) # {}
           /\ SucceededRequests(response'.log) = {})
          => Budget(game_state') = Budget(game_state)]_vars

\* C15 witness: a /generate-media video request whose video call and
\* fallback image call both failed, with assets already counted
C15_Witness ==
    /\ response.op = "/generate-media"
    /\ response.body.type = "video"
    /\ Cardinality(FailedRequests(response.log)) = 2
    /\ SucceededRequests(response.log) = {}
    /\ game_state.generated_images # <<>>
    /\ game_state.scene_media_count.images > 0

\* the calls of function 'name' recorded in log
CallsIn(log, name) == {i \in 1..Len(log) : log[i].call = name}

\* the step is the return of tool 'name': each of these tools appends to
\* story_history or starts an adventure, which no other step does
ToolReturned(name) ==
    /\ response'.op = name
    /\ \/ game_state'.story_history # game_state.story_history
       \/ audit'.adventures # audit.adventures

\* C16: no provider failure escapes the gateway or the narrative flow. In
\* every reachable state the gateway functions answer a failing provider with
\* None, a failed music session ends its thread and touches nothing else,
\* and start_new_adventure, begin_opening_scene, present_story_choice,
\* resolve_user_choice and create_story_climax return their normal result,
\* with no asset in place of each one that failed.
C16_ProviderFailureContained ==
    [][/\ generate_consistent_image(game_state, None).ret = None
       /\ generate_direct_video(game_state, None).ret = None
       /\ \A seed \in {None} \cup {game_state.generated_images[i] :
                                       i \in 1..Len(game_state.generated_images)} :
            generate_video_from_image_seed(game_state, seed, None).ret = None
       /\ \A t \in Threads :
            MusicSessionFailed(t) =>
              /\ threads'[t].pc # "streaming"
              /\ game_state' = game_state
              /\ response' = response
       /\ ToolReturned("start_new_adventure") => response'.body.status = "adventure_initialized"
       /\ ToolReturned("present_story_choice") =>
            response'.body.status = "choice_presented_with_clear_options"
       /\ (ToolReturned("begin_opening_scene") /\ CallsIn(response'.log, "image_failed") # {}) =>
            /\ response'.body.status = "opening_scene_complete"
            /\ response'.body.opening_scene.generated_file = None
       /\ (ToolReturned("resolve_user_choice") /\ CallsIn(response'.log, "image_failed") # {}) =>
            /\ response'.body.status = "choice_resolved"
            /\ response'.body.outcome = None
       /\ (ToolReturned("create_story_climax") /\ FailedRequests(response'.log) # {}) =>
            /\ response'.body.status = "epic_story_completed_successfully"
            /\ ~response'.body.raised
            /\ CallsIn(response'.log, "video_failed") # {} =>
                 response'.body.epic_climax_video.generated_file = None
            /\ CallsIn(response'.log, "image_failed") # {} =>
                 response'.body.backup_image_result.generated_image = None]_vars

\* C16 witness: create_story_climax returned its result although both the
\* video and the backup image failed
C16_Witness ==
    /\ response.op = "create_story_climax"
    /\ CallsIn(response.log, "video_failed") # {}
    /\ CallsIn(response.log, "image_failed") # {}
    /\ response.body.status = "epic_story_completed_successfully"
    /\ response.body.story_complete

\* C17: the video poll loop has a hard upper bound: a handler that has
\* entered the loop of generate_direct_video leaves it again, returning no
\* asset if need be, even if the provider operation never reports done.
C17_VideoPollTerminates ==
    (operation.pc # "idle") ~> (operation.pc = "idle")

\* C18: a music generation call that received zero audio frames reports no
\* asset, whatever generated_music already holds: when its session ends,
\* start_lyria_streaming_session returns final_track = None and nothing is
\* appended to generated_music, and generate_single_music_track then
\* returns the empty string.
C18_ZeroFramesNoAsset ==
    [][\A t \in Threads :
         /\ (/\ threads[t].pc = "streaming"
             /\ threads[t].received = 0
             /\ threads'[t].pc # "streaming")
            => /\ \A written \in BOOLEAN :
                    start_lyria_streaming_session(game_state, t, 0, written)
                        .ret.final_track = None
               /\ lyria_session_failed.final_track = None
               /\ game_state'.generated_music = game_state.generated_music
         /\ (/\ threads[t].pc = "select"
             /\ threads[t].received = 0
             /\ threads'[t].pc = "free")
            => generate_single_music_track(game_state) = EmptyName]_vars

\* the shared state the music threads and the handlers mutate
SharedMusicState(g) ==
    <<g.generated_music, g.scene_media_count, g.audio_state.current_session_chunks>>

\* thread t is inside the read-modify-write of create_final_audio_track
Combining(t) == threads[t].pc = "combining"

\* C19: background music generation is serialized with every other mutator
\* of the shared state: no two music threads are inside
\* create_final_audio_track at once, and while a thread is inside it no
\* handler and no other thread changes generated_music, scene_media_count
\* or the chunk buffer.
C19_MusicSerialized ==
    [][\A t \in Threads :
         Combining(t) =>
           /\ \A u \in Threads \ {t} : ~Combining(u)
           /\ threads'[t] = threads[t] =>
                SharedMusicState(game_state') = SharedMusicState(game_state)]_vars

\* the video generation requests recorded in log
VideoRequests(log) ==
    {i \in 1..Len(log) : log[i].call \in {"video_generated", "video_failed"}}

\* C20 as stated: within the structured flow only create_story_climax
\* requests a video, and no other tool changes scene_media_count['videos']
\* or generated_videos.
C20_VideoStateUntouched ==
    [][/\ VideoRequests(response'.log) # {} => response'.op = "create_story_climax"
       /\ (\/ game_state'.scene_media_count.videos # game_state.scene_media_count.videos
           \/ game_state'.generated_videos # game_state.generated_videos)
          => response'.op = "create_story_climax"]_vars

\* C20, amended: within the structured flow only create_story_climax
\* requests a video, adds to generated_videos or raises
\* scene_media_count['videos']; the one other change is start_new_adventure
\* setting the count back to 0.
C20_VideoOnlyAtClimax ==
    [][/\ VideoRequests(response'.log) # {} => response'.op = "create_story_climax"
       /\ game_state'.generated_videos # game_state.generated_videos
          => response'.op = "create_story_climax"
       /\ game_state'.scene_media_count.videos # game_state.scene_media_count.videos
          => \/ response'.op = "create_story_climax"
             \/ /\ response'.op = "start_new_adventure"
                /\ AdventureStarted
                /\ game_state'.scene_media_count.videos = 0]_vars

\* C20 witness: start_new_adventure has returned after a climax video: the
\* video is still listed and its count is back to 0
C20_Witness ==
    /\ response.op = "start_new_adventure"
    /\ game_state.generated_videos # <<>>
    /\ game_state.scene_media_count.videos = 0

\* C21: continue_narrative after the first choice, in a scene whose text
\* contains "forest" in any case, moves to the mystical clearing and sets
\* the danger level to 5.
C21_ForestFirstContinuation ==
    [][(/\ ToolReturned("continue_narrative")
        /\ game_state.user_choices_made = 1
        /\ ContainsLower(game_state.current_scene, "forest"))
       => /\ game_state'.current_scene = ForestScene1
          /\ game_state'.current_danger_level = 5]_vars

C21_Witness ==
    /\ response.op = "continue_narrative"
    /\ audit.adventures >= 1
    /\ game_state.story_history # <<>>
    /\ game_state.story_history[Len(game_state.story_history)] =
         Event("story_continuation", "", 1)
    /\ game_state.current_scene = ForestScene1
    /\ game_state.current_danger_level = 5

\* C22: after continue_narrative with user_choices_made = n in 1..4 the
\* danger level is min(10, 3 + 2n), that is 5, 7, 9, 10, whatever the danger
\* level and the scene were before the call.
C22_DangerAfterContinue ==
    [][(/\ ToolReturned("continue_narrative")
        /\ game_state.user_choices_made \in 1..4)
       => /\ game_state'.current_danger_level =
               (CASE game_state.user_choices_made = 1 -> 5
                  [] game_state.user_choices_made = 2 -> 7
                  [] game_state.user_choices_made = 3 -> 9
                  [] game_state.user_choices_made = 4 -> 10)
          /\ response'.body.danger_level = game_state'.current_danger_level]_vars

C22_Witness ==
    /\ response.op = "continue_narrative"
    /\ game_state.story_history # <<>>
    /\ game_state.story_history[Len(game_state.story_history)] =
         Event("story_continuation", "", 4)
    /\ game_state.current_danger_level = 10
    /\ ScenarioFamily(game_state.current_scene) = "generic"

\* C23: present_story_choice does not advance the story. Every call, also one
\* that follows another with no resolve_user_choice between them, leaves
\* user_choices_made, current_danger_level, current_scene and
\* scene_media_count as they were and appends exactly one choice_moment
\* event to story_history.
C23_PresentDoesNotAdvance ==
    [][ToolReturned("present_story_choice")
       => /\ game_state'.user_choices_made = game_state.user_choices_made
          /\ game_state'.current_danger_level = game_state.current_danger_level
          /\ game_state'.current_scene = game_state.current_scene
          /\ game_state'.scene_media_count = game_state.scene_media_count
          /\ Len(game_state'.story_history) = Len(game_state.story_history) + 1
          /\ SubSeq(game_state'.story_history, 1, Len(game_state.story_history))
               = game_state.story_history
          /\ game_state'.story_history[Len(game_state'.story_history)].type
               = "choice_moment"]_vars

C23_Witness ==
    /\ response.op = "present_story_choice"
    /\ game_state.user_choices_made = 1
    /\ Len(game_state.story_history) >= 3
    /\ \A i \in {Len(game_state.story_history) - 1, Len(game_state.story_history)} :
         game_state.story_history[i].type = "choice_moment"

IsPrefix(s, t) == Len(s) <= Len(t) /\ SubSeq(t, 1, Len(s)) = s

\* C25: story_history is append-only between two start_new_adventure calls.
\* Every step in which start_new_adventure does not run, a request of the
\* structured flow or a step of a background music thread, leaves the
\* previous story_history as a prefix of the new one.
C25_HistoryAppendOnly ==
    [][~AdventureStarted
       => IsPrefix(game_state.story_history, game_state'.story_history)]_vars

C25_Witness ==
    /\ response.op = "/make-choice"
    /\ InAdventure
    /\ Len(game_state.story_history) >= 6
    /\ game_state.story_history[1].type = "opening_scene"
    /\ game_state.story_history[Len(game_state.story_history)].type = "choice_moment"
    /\ game_state.generated_music # <<>>

Names(characters) == {characters[i] : i \in 1..Len(characters)}

\* C26: characters_present behaves as a grow-only set: no step leaves the
\* same name in it twice and no step removes a name from it.
C26_CharactersGrowOnlySet ==
    [][/\ Cardinality(Names(game_state'.characters_present))
            = Len(game_state'.characters_present)
       /\ Names(game_state.characters_present)
            \subseteq Names(game_state'.characters_present)]_vars

\* C27: every successful /start-story response carries three choices,
\* choices_remaining = 5, current_choice = 0 and total_choices = 5, and the
\* request leaves user_choices_made = 0, whatever the state before it and
\* whether or not the text collaborator answered.
C27_StartStoryResponse ==
    (response.op = "/start-story" /\ response.status = 200)
    => /\ Len(response.body.choices) = 3
       /\ response.body.choices_remaining = 5
       /\ response.body.current_choice = 0
       /\ response.body.total_choices = 5
       /\ response.body.story_complete = FALSE
       /\ game_state.user_choices_made = 0

C27_Witness ==
    /\ response.op = "/start-story"
    /\ response.status = 200
    /\ response.body.choices = << <<>>, <<>>, <<>> >>
    /\ response.body.choices_remaining = 5
    /\ game_state.current_danger_level >= 5
    /\ game_state.user_choices_made = 0

\* C28: get_story_status is a read-only projection. A /story-status request
\* changes no field of the game state, and the story_stage it reports is
\* "beginning" with fewer than 3 events in story_history, "middle" with 3 to
\* 7, and "climax" with 8 or more.
C28_StatusReadOnly ==
    [][(response'.op = "/story-status" /\ response' # response)
       => /\ game_state' = game_state
          /\ threads' = threads
          /\ response'.body.story_events = Len(game_state.story_history)
          /\ response'.body.story_stage =
               (CASE Len(game_state.story_history) \in 0..2 -> "beginning"
                  [] Len(game_state.story_history) \in 3..7 -> "middle"
                  [] OTHER -> "climax")]_vars

C28_Witness ==
    /\ response.op = "/story-status"
    /\ response.body.story_stage = "climax"
    /\ response.body.story_events = 8
    /\ Len(game_state.story_history) = 8

EventsOfType(history, type) == {i \in 1..Len(history) : history[i].type = type}

\* C29: over the HTTP boundary begin_opening_scene runs exactly once per
\* adventure and before any choice: from a start_new_adventure on,
\* story_history holds exactly one opening_scene event, and it is the first
\* event, ahead of every choice_moment and choice_resolution event.
C29_OneOpeningScene ==
    InAdventure
    => /\ EventsOfType(game_state.story_history, "opening_scene") = {1}
       /\ \A i \in EventsOfType(game_state.story_history, "choice_moment")
                   \cup EventsOfType(game_state.story_history, "choice_resolution") :
            i > 1

C29_Witness ==
    /\ InAdventure
    /\ response.op = "/make-choice"
    /\ EventsOfType(game_state.story_history, "opening_scene") = {1}
    /\ Cardinality(EventsOfType(game_state.story_history, "choice_resolution")) >= 2
    /\ Cardinality(EventsOfType(game_state.story_history, "choice_moment")) >= 2

HasWord(request, kw) == \E i \in 1..Len(request) : LowerWord(request[i]) = kw

\* C30: start_new_adventure classifies the request by the first match in a
\* fixed order, in any letter case: "cyberpunk" or "detective" gives the
\* cyberpunk template even when later keywords occur too; otherwise
\* "fantasy", "knight" or "dragon" gives the dragon template; otherwise
\* "forest" or "magic" gives the forest template; a request with none of
\* them gives a custom scenario whose setting embeds the request text.
C30_FirstMatchClassification ==
    response.op = "start_new_adventure"
    => LET request == response.body.user_request
           cyber == HasWord(request, "cyberpunk") \/ HasWord(request, "detective")
           dragon == HasWord(request, "fantasy") \/ HasWord(request, "knight")
                     \/ HasWord(request, "dragon")
           forest == HasWord(request, "forest") \/ HasWord(request, "magic")
       IN  /\ cyber => /\ game_state.current_scene = CyberpunkSetting
                       /\ response.body.story_type = "cyberpunk"
           /\ (~cyber /\ dragon) => /\ game_state.current_scene = DragonSetting
                                    /\ response.body.story_type = "fantasy"
           /\ (~cyber /\ ~dragon /\ forest)
                => /\ game_state.current_scene = ForestSetting
                   /\ response.body.story_type = "mystical"
           /\ (~cyber /\ ~dragon /\ ~forest)
                => /\ game_state.current_scene = CustomSettingPrefix \o request
                   /\ response.body.story_type = "adventure"
           /\ response.body.setting = game_state.current_scene

C30_Witness ==
    /\ response.op = "start_new_adventure"
    /\ response.body.user_request = <<"magic", "Dragon", "detective">>
    /\ game_state.current_scene = CyberpunkSetting
    /\ response.body.story_type = "cyberpunk"

\* the answer of the text collaborator kept in a response
AnswerOf(resp) == resp.log[Len(resp.log)].answer

\* the choice a response may carry for a label: empty when no line of the
\* answer starts with the label, else the text of its last such line
ParsedAs(answer, label, choice) ==
    IF answer = None THEN choice = <<>>
    ELSE LET txt == answer.lines
         IN  IF ~(\E i \in 1..Len(txt) : txt[i][1] = label)
             THEN choice = <<>>
             ELSE \E i \in 1..Len(txt) :
                    /\ txt[i][1] = label
                    /\ \A j \in (i + 1)..Len(txt) : txt[j][1] # label
                    /\ <<label>> \o choice = txt[i]

\* C31: present_story_choice tolerates any collaborator response. A label
\* among A:, B:, C: that starts no line gives an empty choice, the labels
\* that occur are returned, the call returns its normal result and appends
\* one choice_moment event; the same when the collaborator is unavailable or
\* raises.
C31_ChoiceParsingTolerant ==
    [][ToolReturned("present_story_choice")
       => /\ response'.status = 200
          /\ response'.body.status = "choice_presented_with_clear_options"
          /\ ParsedAs(AnswerOf(response'), "A:", response'.body.choice_a)
          /\ ParsedAs(AnswerOf(response'), "B:", response'.body.choice_b)
          /\ ParsedAs(AnswerOf(response'), "C:", response'.body.choice_c)
          /\ game_state'.story_history
               = Append(game_state.story_history, Event("choice_moment", "", 0))]_vars

C31_Witness ==
    /\ response.op = "present_story_choice"
    /\ AnswerOf(response)
         = [lines |-> << <<"A:", "fight">>, <<"C:", "talk">>, <<"A:", "run">> >>]
    /\ response.body.choice_a = <<"run">>
    /\ response.body.choice_b = <<>>
    /\ response.body.choice_c = <<"talk">>
    /\ game_state.story_history # <<>>

\* what a step at the image cap leaves alone: no image request, the counters,
\* the generated images and both reference maps as they were
CapReachedNoOp ==
    /\ response'.status = 200
    /\ ImageRequests(response'.log) = {}
    /\ game_state'.scene_media_count = game_state.scene_media_count
    /\ game_state'.generated_images = game_state.generated_images
    /\ game_state'.visual_style = game_state.visual_style

\* C32 as stated: generate_establishing_scene and create_character_portrait
\* called with scene_media_count['images'] >= 1 issue no provider call, raise
\* no error, return status 'prompt_only' and leave scene_media_count,
\* generated_images and the reference maps unchanged.
C32_CapReachedPromptOnly ==
    [][/\ (ToolGenerateEstablishingScene /\ game_state.scene_media_count.images >= 1)
          => /\ CapReachedNoOp
             /\ response'.body.status = "prompt_only"
       /\ (ToolCreateCharacterPortrait /\ game_state.scene_media_count.images >= 1)
          => /\ CapReachedNoOp
             /\ response'.body.character_portrait.status = "prompt_only"]_vars

\* C32 amended: at the cap both functions issue no provider call, raise no
\* error and leave the counters, the images and the reference maps
\* unchanged; the status is 'prompt_only', except that a portrait request
\* for a name with a stored reference returns that reference with status
\* 'using_existing_reference'.
C32_CapReachedNoGeneration ==
    [][/\ (ToolGenerateEstablishingScene /\ game_state.scene_media_count.images >= 1)
          => /\ CapReachedNoOp
             /\ response'.body.status = "prompt_only"
             /\ response'.body.generated_file = None
       /\ (ToolCreateCharacterPortrait /\ game_state.scene_media_count.images >= 1)
          => /\ CapReachedNoOp
             /\ response'.body.character_portrait.status =
                  (IF response'.body.npc_name
                        \in DOMAIN game_state.visual_style.character_references
                   THEN "using_existing_reference" ELSE "prompt_only")]_vars

C32_Witness ==
    /\ response.op = "create_character_portrait"
    /\ response.body.character_portrait.status = "prompt_only"
    /\ response.log = <<>>
    /\ game_state.scene_media_count.images >= 1
    /\ game_state.visual_style.location_references # <<>>
    /\ MEDIA_GENERATION_AVAILABLE

\* C33: music generation is fire-and-forget. A request that runs
\* continue_narrative or create_story_climax starts exactly one background
\* music thread and returns, with scene, danger level and history updated,
\* while that thread has received nothing yet; no other thread is touched
\* and no track is awaited.
C33_MusicFireAndForget ==
    [][(/\ response'.op = "/make-choice"
        /\ game_state'.story_history # game_state.story_history)
       => LET continued == CallsIn(response'.log, "continue_narrative") # {}
              climax == CallsIn(response'.log, "create_story_climax") # {}
          IN  /\ continued # climax
              /\ response'.status = 200
              /\ Cardinality(ThreadsStarted) = 1
              /\ \A t \in ThreadsStarted :
                   threads'[t] = [pc |-> "streaming",
                                  kind |-> IF continued THEN "single_track"
                                           ELSE "lyria_session",
                                  received |-> 0]
              /\ \A t \in Threads \ ThreadsStarted : threads'[t] = threads[t]
              /\ game_state'.generated_music = game_state.generated_music
              /\ game_state'.audio_state = game_state.audio_state
              /\ Len(game_state'.story_history) > Len(game_state.story_history)]_vars

C33_Witness ==
    /\ response.op = "/make-choice"
    /\ response.status = 200
    /\ CallsIn(response.log, "create_story_climax") # {}
    /\ game_state.current_danger_level = 10
    /\ game_state.generated_music = <<>>
    /\ \E t \in Threads : threads[t] = [pc |-> "streaming", kind |-> "lyria_session",
                                        received |-> 0]

\* the scene the branch of a family writes at user_choices_made = n
FamilyScene(family, n) == EvolvedScene(n, <<family>>)

\* C34: the scenario family continue_narrative derives from current_scene is
\* stable within an adventure: once a call took the cyberpunk, atlantis or
\* forest branch (and so left that family's scene), the call after the next
\* choice takes the same family's branch.
C34_FamilyStable ==
    [][\A family \in {"cyberpunk", "atlantis", "forest"}, n \in 1..3 :
         (/\ ToolReturned("continue_narrative")
          /\ game_state.user_choices_made = n + 1
          /\ game_state.current_scene = FamilyScene(family, n))
         => response'.body.narrative.family = family]_vars

\* C35: every successful image or video generation is recorded exactly
\* once. A step that changes the image (video) records raises
\* scene_media_count by the number of images (videos) the provider produced
\* in it and appends as many file names, and generated_images and
\* generated_videos never hold the same file twice.
C35_RecordedOnce ==
    [][~AdventureStarted
       => LET images == Cardinality(CallsIn(response'.log, "image_generated"))
              videos == Cardinality(CallsIn(response'.log, "video_generated"))
          IN  /\ (\/ game_state'.generated_images # game_state.generated_images
                  \/ game_state'.scene_media_count.images
                       # game_state.scene_media_count.images)
                 => /\ Len(game_state'.generated_images)
                         = Len(game_state.generated_images) + images
                    /\ game_state'.scene_media_count.images
                         = game_state.scene_media_count.images + images
              /\ (\/ game_state'.generated_videos # game_state.generated_videos
                  \/ game_state'.scene_media_count.videos
                       # game_state.scene_media_count.videos)
                 => /\ Len(game_state'.generated_videos)
                         = Len(game_state.generated_videos) + videos
                    /\ game_state'.scene_media_count.videos
                         = game_state.scene_media_count.videos + videos
              /\ Cardinality(Names(game_state'.generated_images))
                   = Len(game_state'.generated_images)
              /\ Cardinality(Names(game_state'.generated_videos))
                   = Len(game_state'.generated_videos)]_vars

\* the chunks of the buffer that a session other than t buffered
ForeignChunks(chunks, t) == {i \in 1..Len(chunks) : chunks[i].session # t}

\* C36: when background music sessions overlap, each session's final track
\* is built only from the chunks that session received, and no session
\* consumes or clears chunks another session buffered.
C36_SessionsKeepOwnChunks ==
    [][/\ \A i \in 1..Len(game_state'.generated_music) :
            ForeignChunks(game_state'.generated_music[i].content,
                          game_state'.generated_music[i].session) = {}
       /\ \A t \in Threads :
            (/\ threads[t].pc = "combining"
             /\ threads'[t].pc # "combining"
             /\ game_state'.audio_state.current_session_chunks = <<>>)
            => ForeignChunks(game_state.audio_state.current_session_chunks, t) = {}]_vars

\* C37: continue_narrative called with user_choices_made outside 1..4 fails
\* with an error and leaves current_scene, current_danger_level,
\* characters_present and story_history unchanged.
C37_ContinueOutsideRangeUnchanged ==
    [][(StoryContinueNarrative /\ game_state.user_choices_made \notin 1..4)
       => /\ response'.body.raised
          /\ game_state'.current_scene = game_state.current_scene
          /\ game_state'.current_danger_level = game_state.current_danger_level
          /\ game_state'.characters_present = game_state.characters_present
          /\ game_state'.story_history = game_state.story_history]_vars

\* C38: every /make-choice response is consistent with the state:
\* current_choice equals user_choices_made after the request,
\* choices_remaining equals 5 - current_choice, and both lie in 0..5, for
\* every number of /make-choice requests sent after one /start-story.
C38_MakeChoiceResponseConsistent ==
    (InAdventure /\ response.op = "/make-choice")
    => /\ response.status = 200
       /\ response.body.current_choice = game_state.user_choices_made
       /\ response.body.choices_remaining = 5 - response.body.current_choice
       /\ response.body.current_choice \in 0..5
       /\ response.body.choices_remaining \in 0..5

\* C39: in the boundary flow get_story_status reports story_stage "climax"
\* only after create_story_climax has run in the current adventure, that
\* is only when user_choices_made has reached 5.
C39_ClimaxStageOnlyAfterClimax ==
    (/\ InAdventure
     /\ response.op = "/story-status"
     /\ response.body.story_stage = "climax")
    => /\ audit.climax_done
       /\ game_state.user_choices_made >= 5

\* C40: POST /generate-media with type "video" never fails; when the
\* provider produced a video the response reports that video file as
\* generated_file, and when it did not and the fallback produced an image
\* the response reports the image.
C40_VideoRequestReportsVideo ==
    (response.op = "/generate-media" /\ response.body.type = "video")
    => /\ response.status = 200
       /\ CallsIn(response.log, "video_generated") # {}
            => /\ game_state.generated_videos # <<>>
               /\ response.body.generated_file \in Names(game_state.generated_videos)
       /\ (/\ CallsIn(response.log, "video_generated") = {}
           /\ CallsIn(response.log, "image_generated") # {})
            => response.body.generated_file \in Names(game_state.generated_images)
=============================================================================
